---- MODULE Spec2Model ----
(***************************************************************************)
(* Schema inference and data extraction of the XML reader                  *)
(* (XMLSchemaInference, src/src/xml_schema_inference.cpp).                 *)
(*                                                                         *)
(* A std::string is a sequence of one-character strings, an xmlNodePtr is  *)
(* the path of child indexes from the document root, a LogicalType and a   *)
(* Value are records.                                                      *)
(***************************************************************************)
EXTENDS Integers, Sequences, FiniteSets

VARIABLES doc, opts, hashOrder, op, args, result,
          bind_data, gstate, output, raised,
          xml_parse_error_occurred, thread

vars == <<doc, opts, hashOrder, op, args, result, bind_data, gstate, output, raised,
          xml_parse_error_occurred, thread>>

\* the process-wide error flag of xml_utils.cpp and the threads inside IsValidXML
parseVars == <<xml_parse_error_occurred, thread>>

\* no thread is parsing
NoThreads ==
    /\ xml_parse_error_occurred = FALSE
    /\ thread = <<>>

\* the state of a table scan: XMLReadFunctionData, XMLReadGlobalState, the chunks
\* handed to the host so far and whether a call ended in an exception
scanVars == <<bind_data, gstate, output, raised>>

\* no table function is bound
NoScan ==
    /\ bind_data = [bound |-> FALSE]
    /\ gstate = [file_index |-> 0]
    /\ output = <<>>
    /\ raised = FALSE

(***************************************************************************)
(* std::string helpers                                                     *)
(***************************************************************************)
Digits == {"0", "1", "2", "3", "4", "5", "6", "7", "8", "9"}

DigitVal(c) ==
    CASE c = "0" -> 0 [] c = "1" -> 1 [] c = "2" -> 2 [] c = "3" -> 3
      [] c = "4" -> 4 [] c = "5" -> 5 [] c = "6" -> 6 [] c = "7" -> 7
      [] c = "8" -> 8 [] c = "9" -> 9

IsSpace(c) == c \in {" ", "\t", "\n", "\r"}

\* ::tolower / StringUtil::Lower on one character
LowerChar(c) ==
    CASE c = "T" -> "t" [] c = "R" -> "r" [] c = "U" -> "u" [] c = "E" -> "e"
      [] c = "F" -> "f" [] c = "A" -> "a" [] c = "L" -> "l" [] c = "S" -> "s"
      [] c = "Y" -> "y" [] c = "N" -> "n" [] c = "O" -> "o"
      [] c = "I" -> "i"
      [] OTHER -> c

Lower(s) == [i \in 1..Len(s) |-> LowerChar(s[i])]

\* s.substr(from) with from a 0-based offset
SubstrFrom(s, from) == SubSeq(s, from + 1, Len(s))

\* s.substr(0, n): at most the first n characters
Prefix(s, n) == SubSeq(s, 1, IF n < Len(s) THEN n ELSE Len(s))

\* s.find(c): the 0-based offset of the first c, or -1 for npos
Find(s, c) ==
    IF \E i \in 1..Len(s) : s[i] = c
    THEN (CHOOSE i \in 1..Len(s) : s[i] = c /\ \A j \in 1..(i - 1) : s[j] # c) - 1
    ELSE -1

\* The number of leading characters of s, from 1-based position from, that satisfy
\* the test given as a set of characters
RECURSIVE SpanIn(_, _, _)
SpanIn(s, from, set) ==
    IF from <= Len(s) /\ s[from] \in set THEN 1 + SpanIn(s, from + 1, set) ELSE 0

RECURSIVE SpanSpace(_, _)
SpanSpace(s, from) ==
    IF from <= Len(s) /\ IsSpace(s[from]) THEN 1 + SpanSpace(s, from + 1) ELSE 0

RECURSIVE Concat(_)
Concat(ss) == IF ss = <<>> THEN <<>> ELSE Head(ss) \o Concat(Tail(ss))

StripNamespacePrefix(name) ==
    LET colon_pos == Find(name, ":")
    IN IF colon_pos # -1 THEN SubstrFrom(name, colon_pos + 1) ELSE name

\* StringUtil::Trim, then every run of whitespace replaced by one space
RECURSIVE CollapseSpaces(_)
CollapseSpaces(s) ==
    IF s = <<>> THEN <<>>
    ELSE IF IsSpace(s[1])
         THEN <<" ">> \o CollapseSpaces(SubSeq(s, 1 + SpanSpace(s, 1), Len(s)))
         ELSE <<s[1]>> \o CollapseSpaces(Tail(s))

RECURSIVE TrimRight(_)
TrimRight(s) ==
    IF s # <<>> /\ IsSpace(s[Len(s)]) THEN TrimRight(SubSeq(s, 1, Len(s) - 1)) ELSE s

Trim(s) == TrimRight(SubSeq(s, 1 + SpanSpace(s, 1), Len(s)))

CleanTextContent(text) == CollapseSpaces(Trim(text))

(***************************************************************************)
(* std::stoll / std::stoi / std::stod: the longest numeric prefix          *)
(***************************************************************************)
RECURSIVE StripZeros(_)
StripZeros(d) == IF Len(d) > 1 /\ d[1] = "0" THEN StripZeros(Tail(d)) ELSE d

RECURSIVE LexLeq(_, _)
LexLeq(a, b) ==
    IF a = <<>> THEN TRUE
    ELSE IF DigitVal(a[1]) < DigitVal(b[1]) THEN TRUE
    ELSE IF DigitVal(a[1]) > DigitVal(b[1]) THEN FALSE
    ELSE LexLeq(Tail(a), Tail(b))

\* magnitude a <= magnitude b, both written in decimal digits
DigitsLeq(a, b) ==
    LET x == StripZeros(a)
        y == StripZeros(b)
    IN Len(x) < Len(y) \/ (Len(x) = Len(y) /\ LexLeq(x, y))

\* LLONG_MAX, -LLONG_MIN, INT_MAX, -INT_MIN in decimal digits
LLongMaxDigits == <<"9","2","2","3","3","7","2","0","3","6","8","5","4","7","7","5","8","0","7">>
LLongMinDigits == <<"9","2","2","3","3","7","2","0","3","6","8","5","4","7","7","5","8","0","8">>
IntMaxDigits == <<"2","1","4","7","4","8","3","6","4","7">>
IntMinDigits == <<"2","1","4","7","4","8","3","6","4","8">>

\* strtol's scan: leading whitespace, an optional sign, decimal digits.
\* pos is the number of characters consumed, digs = <<>> when nothing converts.
ScanDigits(s, neg, first, nd) ==
    [neg |-> neg, digs |-> SubSeq(s, first, first + nd - 1), pos |-> first + nd - 1]

ScanSigned(s, at) ==
    IF at <= Len(s) /\ s[at] \in {"+", "-"}
    THEN ScanDigits(s, s[at] = "-", at + 1, SpanIn(s, at + 1, Digits))
    ELSE ScanDigits(s, FALSE, at, SpanIn(s, at, Digits))

ScanInteger(s) == ScanSigned(s, SpanSpace(s, 1) + 1)

\* the value of a digit string that fits the integer width, built from the
\* sign's side so that the most negative number does not overflow
RECURSIVE DigitsValue(_, _)
DigitsValue(d, neg) ==
    IF d = <<>> THEN 0
    ELSE LET rest == DigitsValue(SubSeq(d, 1, Len(d) - 1), neg)
         IN IF neg THEN 10 * rest - DigitVal(d[Len(d)]) ELSE 10 * rest + DigitVal(d[Len(d)])

\* std::stoll(value, &pos): thrown is std::invalid_argument or std::out_of_range
StollOf(sc) ==
    IF sc.digs = <<>> THEN [thrown |-> TRUE, pos |-> 0]
    ELSE IF ~DigitsLeq(sc.digs, IF sc.neg THEN LLongMinDigits ELSE LLongMaxDigits)
         THEN [thrown |-> TRUE, pos |-> 0]
         ELSE [thrown |-> FALSE, pos |-> sc.pos]

Stoll(s) == StollOf(ScanInteger(s))

\* std::stoi(text): the value of the numeric prefix, whatever follows it
StoiOf(sc) ==
    IF sc.digs = <<>> THEN [thrown |-> TRUE, val |-> 0]
    ELSE IF ~DigitsLeq(sc.digs, IF sc.neg THEN IntMinDigits ELSE IntMaxDigits)
         THEN [thrown |-> TRUE, val |-> 0]
         ELSE [thrown |-> FALSE, val |-> DigitsValue(StripZeros(sc.digs), sc.neg)]

Stoi(s) == StoiOf(ScanInteger(s))

HasPrefixAt(s, from, p) ==
    from + Len(p) - 1 <= Len(s) /\ Lower(SubSeq(s, from, from + Len(p) - 1)) = p

\* std::stod(value, &pos): strtod's decimal, exponent, inf and nan forms
\* strtod's scan in steps: whitespace, an optional sign, digits with an optional
\* fraction (the mantissa), an optional exponent; without a mantissa, inf or nan
StodExponentLen(sign, ne) == IF ne > 0 THEN 1 + sign + ne ELSE 0

StodExponentFrom(s, e, sign) == StodExponentLen(sign, SpanIn(s, e + 1 + sign, Digits))

StodExponent(s, e) ==
    IF e <= Len(s) /\ s[e] \in {"e", "E"}
    THEN StodExponentFrom(s, e, IF e + 1 <= Len(s) /\ s[e + 1] \in {"+", "-"} THEN 1 ELSE 0)
    ELSE 0

StodWithFraction(ni, nf) == IF ni + nf = 0 THEN 0 ELSE ni + 1 + nf

StodMantissa(s, first, ni) ==
    IF first + ni <= Len(s) /\ s[first + ni] = "."
    THEN StodWithFraction(ni, SpanIn(s, first + ni + 1, Digits))
    ELSE ni

StodNumber(s, first, mant) ==
    IF mant > 0
    THEN [thrown |-> FALSE, pos |-> first + mant + StodExponent(s, first + mant) - 1]
    ELSE IF HasPrefixAt(s, first, <<"i","n","f","i","n","i","t","y">>)
         THEN [thrown |-> FALSE, pos |-> first + 7]
    ELSE IF HasPrefixAt(s, first, <<"i","n","f">>) \/ HasPrefixAt(s, first, <<"n","a","n">>)
         THEN [thrown |-> FALSE, pos |-> first + 2]
    ELSE [thrown |-> TRUE, pos |-> 0]

StodUnsigned(s, first) == StodNumber(s, first, StodMantissa(s, first, SpanIn(s, first, Digits)))

StodSigned(s, at) ==
    StodUnsigned(s, IF at <= Len(s) /\ s[at] \in {"+", "-"} THEN at + 1 ELSE at)

Stod(s) == StodSigned(s, SpanSpace(s, 1) + 1)

(***************************************************************************)
(* Type detection helpers                                                  *)
(***************************************************************************)
S_true == <<"t","r","u","e">>
S_false == <<"f","a","l","s","e">>
S_yes == <<"y","e","s">>
S_no == <<"n","o">>
S_on == <<"o","n">>
S_off == <<"o","f","f">>

IsBoolean(value) ==
    LET lower == Lower(value)
    IN lower \in {S_true, S_false, S_yes, S_no, <<"1">>, <<"0">>, S_on, S_off}

\* the conversion did not throw and pos == value.length()
ConsumedAll(r, value) == ~r.thrown /\ r.pos = Len(value)

IsInteger(value) ==
    IF value = <<>> THEN FALSE
    ELSE ConsumedAll(Stoll(value), value)

IsDouble(value) ==
    IF value = <<>> THEN FALSE
    ELSE ConsumedAll(Stod(value), value)

\* std::regex_match of the whole string against a pattern of literal characters
\* and "d" for \d
MatchFixed(s, pat) ==
    /\ Len(s) = Len(pat)
    /\ \A i \in 1..Len(pat) : IF pat[i] = "d" THEN s[i] \in Digits ELSE s[i] = pat[i]

\* the same with a trailing \.\d+
MatchFraction(s, pat) ==
    /\ Len(s) >= Len(pat) + 2
    /\ MatchFixed(SubSeq(s, 1, Len(pat)), pat)
    /\ s[Len(pat) + 1] = "."
    /\ \A i \in (Len(pat) + 2)..Len(s) : s[i] \in Digits

P_ymd == <<"d","d","d","d","-","d","d","-","d","d">>
P_hms == <<"d","d",":","d","d",":","d","d">>

IsDate(value) ==
    \/ MatchFixed(value, P_ymd)
    \/ MatchFixed(value, <<"d","d","/","d","d","/","d","d","d","d">>)
    \/ MatchFixed(value, <<"d","d","d","d","/","d","d","/","d","d">>)
    \/ MatchFixed(value, <<"d","d","-","d","d","-","d","d","d","d">>)

IsTime(value) ==
    \/ MatchFixed(value, P_hms)
    \/ MatchFixed(value, <<"d","d",":","d","d">>)
    \/ MatchFraction(value, P_hms)

IsTimestamp(value) ==
    \/ MatchFixed(value, P_ymd \o <<"T">> \o P_hms)
    \/ MatchFixed(value, P_ymd \o <<" ">> \o P_hms)
    \/ MatchFraction(value, P_ymd \o <<"T">> \o P_hms)
    \/ MatchFixed(value, P_ymd \o <<"T">> \o P_hms \o <<"Z">>)

(***************************************************************************)
(* LogicalType and Value                                                   *)
(***************************************************************************)
Scalar(id) == [id |-> id, alias |-> ""]
VARCHAR == Scalar("VARCHAR")
BOOLEAN_T == Scalar("BOOLEAN")
INTEGER == Scalar("INTEGER")
BIGINT == Scalar("BIGINT")
DOUBLE == Scalar("DOUBLE")
DATE == Scalar("DATE")
TIMESTAMP == Scalar("TIMESTAMP")
TIME == Scalar("TIME")
SQLNULL == Scalar("SQLNULL")
LIST(child) == [id |-> "LIST", child |-> child]
STRUCT(fields) == [id |-> "STRUCT", fields |-> fields]

XMLType == [id |-> "VARCHAR", alias |-> "XML"]
XMLFragmentType == [id |-> "VARCHAR", alias |-> "xmlfragment"]
IsXMLType(type) == type.id = "VARCHAR" /\ type.alias = "XML"
IsXMLArrayType(type) == type.id = "LIST" /\ IsXMLType(type.child)

\* Value(type): the null of a type; Value(): the null of no type
NullOf(type) == [k |-> "NULL", type |-> type]
Null == NullOf(SQLNULL)
IsNull(value) == value.k = "NULL"
StringValue(text) == [k |-> "VARCHAR", v |-> text]
BooleanValue(b) == [k |-> "BOOLEAN", b |-> b]
IntegerValue(n) == [k |-> "INTEGER", n |-> n]
\* a BIGINT, a DOUBLE, a DATE and a TIMESTAMP value are kept as the numeral read
NumeralValue(kind, text) == [k |-> kind, v |-> text]
ListValue(elem, values) == [k |-> "LIST", elem |-> elem, items |-> values]
StructValue(fields) == [k |-> "STRUCT", fields |-> fields]

(***************************************************************************)
(* Date::FromString and Timestamp::FromString of the host, on the forms    *)
(* ConvertToValue hands them: whether they parse or throw                  *)
(***************************************************************************)
TwoDigits(s, i) == 10 * DigitVal(s[i]) + DigitVal(s[i + 1])

ValidDate(s) ==
    /\ MatchFixed(s, P_ymd)
    /\ LET y == DigitsValue(SubSeq(s, 1, 4), FALSE)
           m == TwoDigits(s, 6)
           d == TwoDigits(s, 9)
           leap == (y % 4 = 0 /\ y % 100 # 0) \/ y % 400 = 0
           last == IF m = 2 THEN (IF leap THEN 29 ELSE 28)
                   ELSE IF m \in {4, 6, 9, 11} THEN 30 ELSE 31
       IN m \in 1..12 /\ d \in 1..last

ValidClock(s) ==
    /\ MatchFixed(s, P_hms)
    /\ TwoDigits(s, 1) < 24 /\ TwoDigits(s, 4) < 60 /\ TwoDigits(s, 7) < 60

ValidTimestamp(s) ==
    /\ Len(s) >= 10
    /\ ValidDate(SubSeq(s, 1, 10))
    /\ LET tail == SubSeq(s, 11, Len(s))
           body == IF tail # <<>> /\ tail[Len(tail)] = "Z"
                   THEN SubSeq(tail, 2, Len(tail) - 1) ELSE SubSeq(tail, 2, Len(tail))
       IN \/ tail = <<>>
          \/ /\ tail[1] \in {"T", " "}
             /\ Len(body) >= 8
             /\ ValidClock(SubSeq(body, 1, 8))
             /\ \/ Len(body) = 8
                \/ /\ Len(body) >= 10
                   /\ body[9] = "."
                   /\ \A i \in 10..Len(body) : body[i] \in Digits

(***************************************************************************)
(* ConvertToValue                                                          *)
(***************************************************************************)
\* the value of a conversion r, or Value(text) from the catch-all when it threw
IntegerOrText(r, text) == IF r.thrown THEN StringValue(text) ELSE IntegerValue(r.val)

NumeralOrText(kind, r, text) ==
    IF r.thrown THEN StringValue(text) ELSE NumeralValue(kind, SubSeq(text, 1, r.pos))

ConvertToValue(text, target_type) ==
    IF text = <<>> THEN Null
    ELSE CASE target_type.id = "BOOLEAN" ->
                LET lower == Lower(text)
                IN IF lower \in {S_true, S_yes, <<"1">>, S_on} THEN BooleanValue(TRUE)
                   ELSE IF lower \in {S_false, S_no, <<"0">>, S_off} THEN BooleanValue(FALSE)
                   ELSE Null
           [] target_type.id = "INTEGER" ->
                IntegerOrText(Stoi(text), text)
           [] target_type.id = "BIGINT" ->
                NumeralOrText("BIGINT", Stoll(text), text)
           [] target_type.id = "DOUBLE" ->
                NumeralOrText("DOUBLE", Stod(text), text)
           [] target_type.id = "DATE" ->
                IF Len(text) = 10 /\ text[5] = "-" /\ text[8] = "-"
                THEN IF ValidDate(text) THEN NumeralValue("DATE", text) ELSE StringValue(text)
                ELSE StringValue(text)
           [] target_type.id = "TIMESTAMP" ->
                IF ValidTimestamp(text) THEN NumeralValue("TIMESTAMP", text)
                ELSE StringValue(text)
           [] OTHER -> StringValue(text)

(***************************************************************************)
(* Scalar type detection                                                   *)
(***************************************************************************)
\* double threshold = 0.8, in percent
ThresholdPercent == 80

Count(seq, x) == Cardinality({i \in 1..Len(seq) : seq[i] = x})

\* types: the LogicalTypeIds detected, one per non-empty sample.  At a share of
\* 0.8 at most one id passes, so the iteration order of type_counts is immaterial.
GetMostSpecificType(types) ==
    IF types = <<>> THEN VARCHAR
    ELSE LET total == Len(types)
             passing == {id \in {types[i] : i \in 1..Len(types)} :
                           Count(types, id) * 100 >= ThresholdPercent * total}
         IN IF passing # {} THEN Scalar(CHOOSE id \in passing : TRUE) ELSE VARCHAR

\* DetectOne with the integer test ahead of the boolean test
DetectOne_IntegerFirst(sample, options) ==
    IF options.numeric_detection /\ IsInteger(sample) THEN "INTEGER"
    ELSE IF options.boolean_detection /\ IsBoolean(sample) THEN "BOOLEAN"
    ELSE IF options.numeric_detection /\ IsDouble(sample) THEN "DOUBLE"
    ELSE IF options.temporal_detection /\ IsDate(sample) THEN "DATE"
    ELSE IF options.temporal_detection /\ IsTimestamp(sample) THEN "TIMESTAMP"
    ELSE IF options.temporal_detection /\ IsTime(sample) THEN "TIME"
    ELSE "VARCHAR"

\* the kind one non-empty sample is tallied as
DetectOne(sample, options) ==
    IF options.boolean_detection /\ IsBoolean(sample) THEN "BOOLEAN"
    ELSE IF options.numeric_detection /\ IsInteger(sample) THEN "INTEGER"
    ELSE IF options.numeric_detection /\ IsDouble(sample) THEN "DOUBLE"
    ELSE IF options.temporal_detection /\ IsDate(sample) THEN "DATE"
    ELSE IF options.temporal_detection /\ IsTimestamp(sample) THEN "TIMESTAMP"
    ELSE IF options.temporal_detection /\ IsTime(sample) THEN "TIME"
    ELSE "VARCHAR"

RECURSIVE DetectAll(_, _)
DetectAll(samples, options) ==
    IF samples = <<>> THEN <<>>
    ELSE IF Head(samples) = <<>> THEN DetectAll(Tail(samples), options)
    ELSE <<DetectOne(Head(samples), options)>> \o DetectAll(Tail(samples), options)

InferTypeFromSamples(samples, options) ==
    IF samples = <<>> THEN VARCHAR
    ELSE GetMostSpecificType(DetectAll(samples, options))

(***************************************************************************)
(* The parsed document (libxml2).  An element is                           *)
(*   [name, properties: sequence of [name, value], text, children]         *)
(* with its direct text ahead of its child elements, and an xmlNodePtr is  *)
(* the path of child indexes that leads to it from the root element.       *)
(***************************************************************************)
Element(name, properties, text, children) ==
    [name |-> name, properties |-> properties, text |-> text, children |-> children]

Attr(name, value) == [name |-> name, value |-> value]

RECURSIVE NodeAt(_, _)
NodeAt(root, path) ==
    IF path = <<>> THEN root ELSE NodeAt(root.children[Head(path)], Tail(path))

\* the element children of a node, as pointers
ChildPaths(root, path) ==
    [i \in 1..Len(NodeAt(root, path).children) |-> Append(path, i)]

\* xmlNodeGetContent: the text of the node and of all its descendants
RECURSIVE NodeGetContent(_)
NodeGetContent(node) ==
    node.text \o Concat([i \in 1..Len(node.children) |-> NodeGetContent(node.children[i])])

\* xmlGetProp: the value of the attribute of that name, if the node has one
HasProp(node, name) == \E i \in 1..Len(node.properties) : node.properties[i].name = name

GetProp(node, name) ==
    LET i == CHOOSE i \in 1..Len(node.properties) :
                 /\ node.properties[i].name = name
                 /\ \A j \in 1..(i - 1) : node.properties[j].name # name
    IN node.properties[i].value

\* xmlNodeDump: the element written out with its attributes and content
RECURSIVE NodeDump(_)
NodeDump(node) ==
    LET attrs == Concat([i \in 1..Len(node.properties) |->
                    <<" ">> \o node.properties[i].name \o <<"=", "\"">>
                        \o node.properties[i].value \o <<"\"">>])
        inner == node.text \o Concat([i \in 1..Len(node.children) |-> NodeDump(node.children[i])])
    IN IF inner = <<>> THEN <<"<">> \o node.name \o attrs \o <<"/", ">">>
       ELSE <<"<">> \o node.name \o attrs \o <<">">> \o inner
                \o <<"<", "/">> \o node.name \o <<">">>

\* every element of the document in document order, as pointers
RECURSIVE Preorder(_, _)
Preorder(root, path) ==
    <<path>> \o Concat([i \in 1..Len(NodeAt(root, path).children) |->
                            Preorder(root, Append(path, i))])

\* xmlXPathEvalExpression for //*[local-name()='tag'] and, without namespaces, //tag
XPathByName(root, tag) ==
    SelectSeq(Preorder(root, <<>>), LAMBDA p : NodeAt(root, p).name = tag)

(***************************************************************************)
(* Phase 1: IdentifyRecordElements                                         *)
(***************************************************************************)
\* hard cap of max_depth
DepthCap == 20

\* max_depth taken as it is given
EffectiveDepth_Unclamped(options) == options.max_depth

EffectiveDepth(options) ==
    IF options.max_depth > DepthCap \/ options.max_depth < 0 THEN DepthCap ELSE options.max_depth

\* the steps of a path, one per "/"
RECURSIVE SplitSlash(_)
SplitSlash(s) ==
    IF Find(s, "/") = -1 THEN <<s>>
    ELSE <<SubSeq(s, 1, Find(s, "/"))>> \o SplitSlash(SubstrFrom(s, Find(s, "/") + 1))

\* the children of the nodes selected so far that bear the name of the next step
RECURSIVE XPathChildSteps(_, _, _)
XPathChildSteps(root, selected, steps) ==
    IF steps = <<>> THEN selected
    ELSE XPathChildSteps(root,
             Concat([i \in 1..Len(selected) |->
                       SelectSeq(ChildPaths(root, selected[i]),
                                 LAMBDA p : NodeAt(root, p).name = Head(steps))]),
             Tail(steps))

\* xmlXPathEvalExpression for the expressions left as they are.  Of these the
\* calls use an absolute path of child steps, /root/item, and malformed
\* expressions such as //item[ for which no object comes back (nullptr).
XPathEval(root, expr) ==
    IF Find(expr, "[") # -1 \/ Find(expr, "@") # -1 THEN <<>>
    ELSE IF Prefix(expr, 1) = <<"/">> /\ Prefix(expr, 2) # <<"/", "/">>
    THEN IF Head(SplitSlash(SubstrFrom(expr, 1))) = root.name
         THEN XPathChildSteps(root, <<(<<>>)>>, Tail(SplitSlash(SubstrFrom(expr, 1))))
         ELSE <<>>
    ELSE <<>>

IsSimpleTag(expr) == Find(expr, "/") = -1 /\ Find(expr, "[") = -1 /\ Find(expr, "@") = -1

IdentifyRecordElements(root, options) ==
    IF EffectiveDepth(options) = 0 THEN <<(<<>>)>>
    ELSE IF options.record_element # <<>>
    THEN LET xpath_expr == options.record_element
         IN IF IsSimpleTag(xpath_expr) THEN XPathByName(root, xpath_expr)
            ELSE IF Prefix(xpath_expr, 2) = <<"/", "/">> /\ IsSimpleTag(SubstrFrom(xpath_expr, 2))
            THEN XPathByName(root, SubstrFrom(xpath_expr, 2))
            ELSE XPathEval(root, xpath_expr)
    ELSE IF options.root_element # <<>>
    THEN LET found == XPathByName(root, options.root_element)
             from == IF found # <<>> THEN found[1] ELSE <<>>
         IN ChildPaths(root, from)
    ELSE ChildPaths(root, <<>>)

(***************************************************************************)
(* Phase 2: IdentifyColumns.  The unordered_map is the sequence of its     *)
(* entries in insertion order; its iteration order is hashOrder.           *)
(***************************************************************************)
ColumnAnalysis(name, is_attribute) ==
    [name |-> name, is_attribute |-> is_attribute, instances |-> <<>>,
     occurrence_count |-> 0, repeats_in_record |-> FALSE]

HasColumn(columns, name) == \E i \in 1..Len(columns) : columns[i].name = name

\* columns.find / columns.emplace, then the instance is appended and counted
Touch(columns, name, is_attribute, node) ==
    LET found == IF HasColumn(columns, name) THEN columns
                 ELSE Append(columns, ColumnAnalysis(name, is_attribute))
    IN [i \in 1..Len(found) |->
          IF found[i].name = name
          THEN [found[i] EXCEPT !.instances = Append(@, node), !.occurrence_count = @ + 1]
          ELSE found[i]]

\* what one record touches: its attributes, then its child elements
RecordTouches(root, record, options) ==
    LET node == NodeAt(root, record)
        attrs == IF options.attr_mode # "discard"
                 THEN [i \in 1..Len(node.properties) |->
                         [name |-> IF options.attr_mode = "prefixed"
                                   THEN options.attr_prefix \o node.properties[i].name
                                   ELSE node.properties[i].name,
                          is_attribute |-> TRUE, node |-> record]]
                 ELSE <<>>
        kids == [i \in 1..Len(node.children) |->
                   [name |-> IF options.namespaces = "strip"
                             THEN StripNamespacePrefix(node.children[i].name)
                             ELSE node.children[i].name,
                    is_attribute |-> FALSE, node |-> Append(record, i)]]
    IN attrs \o kids

RECURSIVE TouchAll(_, _)
TouchAll(columns, touches) ==
    IF touches = <<>> THEN columns
    ELSE TouchAll(Touch(columns, Head(touches).name, Head(touches).is_attribute,
                        Head(touches).node), Tail(touches))

\* MarkRepeats with the flag of every column set anew by each record
MarkRepeats_Reset(columns, touches) ==
    [i \in 1..Len(columns) |->
       [columns[i] EXCEPT !.repeats_in_record =
           Cardinality({j \in 1..Len(touches) : touches[j].name = columns[i].name}) > 1]]

\* columns_in_this_record[name] > 1 sets repeats_in_record
MarkRepeats(columns, touches) ==
    [i \in 1..Len(columns) |->
       IF Cardinality({j \in 1..Len(touches) : touches[j].name = columns[i].name}) > 1
       THEN [columns[i] EXCEPT !.repeats_in_record = TRUE]
       ELSE columns[i]]

RECURSIVE IdentifyColumnsFrom(_, _, _, _)
IdentifyColumnsFrom(columns, root, record_elements, options) ==
    IF record_elements = <<>> THEN columns
    ELSE LET touches == RecordTouches(root, Head(record_elements), options)
         IN IdentifyColumnsFrom(MarkRepeats(TouchAll(columns, touches), touches),
                                root, Tail(record_elements), options)

IdentifyColumns(root, record_elements, options) ==
    IdentifyColumnsFrom(<<>>, root, record_elements, options)

(***************************************************************************)
(* Phase 3: InferColumnType                                                *)
(***************************************************************************)
\* s split at every "|"
RECURSIVE SplitBar(_)
SplitBar(s) ==
    LET bar == Find(s, "|")
    IN IF bar = -1 THEN <<s>>
       ELSE <<SubSeq(s, 1, bar)>> \o SplitBar(SubstrFrom(s, bar + 1))

\* the element name of one "//name" segment, <<>> when the segment names none
ForceListName(segment) ==
    LET xpath_segment == Trim(segment)
        element_name == SubstrFrom(xpath_segment, 2)
        cuts == {i \in 1..Len(element_name) : element_name[i] \in {"/", "[", "@"}}
        xpath_end == IF cuts = {} THEN Len(element_name)
                     ELSE (CHOOSE i \in cuts : \A j \in cuts : i <= j) - 1
    IN IF Prefix(xpath_segment, 2) = <<"/", "/">>
       THEN SubSeq(element_name, 1, xpath_end)
       ELSE <<>>

ParseForceListElements(force_list_str) ==
    IF force_list_str = <<>> THEN {}
    ELSE LET segments == SplitBar(force_list_str)
         IN {ForceListName(segments[i]) : i \in 1..Len(segments)} \ {<<>>}

\* sample_values.size() < 20
SampleCap == 20

\* an instance with a child element, or with an attribute unless they are discarded
IsComplex(node, options) ==
    \/ node.children # <<>>
    \/ (options.attr_mode # "discard" /\ node.properties # <<>>)

RECURSIVE CollectSamples(_, _, _)
CollectSamples(samples, root, instances) ==
    IF instances = <<>> THEN samples
    ELSE LET text == CleanTextContent(NodeGetContent(NodeAt(root, Head(instances))))
         IN CollectSamples(IF Len(samples) < SampleCap /\ text # <<>>
                           THEN Append(samples, text) ELSE samples,
                           root, Tail(instances))

\* the last instance of the column inspected in place of the first
FirstInstance_Last(column) == column.instances[Len(column.instances)]

\* xmlNodePtr first = column.instances[0]
FirstInstance(column) == column.instances[1]

ChildName(node, options) ==
    IF options.namespaces = "strip" THEN StripNamespacePrefix(node.name) ELSE node.name

\* the attributes of the first instance as VARCHAR fields
AttributeFields(first, options) ==
    IF options.attr_mode # "discard"
    THEN [i \in 1..Len(first.properties) |->
            [name |-> IF options.namespaces = "strip"
                      THEN StripNamespacePrefix(first.properties[i].name)
                      ELSE first.properties[i].name,
             type |-> VARCHAR]]
    ELSE <<>>

\* the positions of the children whose name no earlier child bears
FirstOccurrences(first, options) ==
    SelectSeq([i \in 1..Len(first.children) |-> i],
              LAMBDA i : \A j \in 1..(i - 1) :
                  ChildName(first.children[j], options) # ChildName(first.children[i], options))

\* the synthetic column of one distinct child tag of the first instance
NestedColumn(first, firstPath, i, options) ==
    LET child_name == ChildName(first.children[i], options)
        count == Cardinality({j \in 1..Len(first.children) :
                                ChildName(first.children[j], options) = child_name})
    IN [name |-> child_name, is_attribute |-> FALSE, instances |-> <<Append(firstPath, i)>>,
        occurrence_count |-> count, repeats_in_record |-> count > 1]

RECURSIVE InferColumnType(_, _, _, _)
\* ChildFields with the nested call given the caller's remaining depth
ChildFields_SameDepth(root, firstPath, remaining_depth, options) ==
    LET first == NodeAt(root, firstPath)
        occ == FirstOccurrences(first, options)
    IN [n \in 1..Len(occ) |->
          LET nested_col == NestedColumn(first, firstPath, occ[n], options)
          IN [name |-> nested_col.name,
              type |-> InferColumnType(root, nested_col, remaining_depth, options)]]

\* the child elements of the first instance as fields, each typed one level deeper
ChildFields(root, firstPath, remaining_depth, options) ==
    LET first == NodeAt(root, firstPath)
        occ == FirstOccurrences(first, options)
    IN [n \in 1..Len(occ) |->
          LET nested_col == NestedColumn(first, firstPath, occ[n], options)
          IN [name |-> nested_col.name,
              type |-> InferColumnType(root, nested_col, remaining_depth - 1, options)]]

InferColumnType(root, column, remaining_depth, options) ==
    IF column.is_attribute THEN VARCHAR
    ELSE
    LET force_as_list == column.name \in ParseForceListElements(options.force_list)
        all_leaf == \A i \in 1..Len(column.instances) :
                        ~IsComplex(NodeAt(root, column.instances[i]), options)
    IN IF all_leaf
       THEN LET scalar_type ==
                    InferTypeFromSamples(CollectSamples(<<>>, root, column.instances), options)
            IN IF force_as_list THEN LIST(scalar_type) ELSE scalar_type
       ELSE IF remaining_depth <= 0
       THEN IF force_as_list THEN LIST(XMLType) ELSE XMLType
       ELSE LET firstPath == FirstInstance(column)
                first == NodeAt(root, firstPath)
            IN IF column.repeats_in_record \/ force_as_list
               THEN LET struct_fields == AttributeFields(first, options)
                            \o ChildFields(root, firstPath, remaining_depth, options)
                    IN IF struct_fields # <<>> THEN LIST(STRUCT(struct_fields))
                       ELSE LIST(XMLType)
               ELSE LET struct_fields == ChildFields(root, firstPath, remaining_depth, options)
                    IN IF struct_fields # <<>> THEN STRUCT(struct_fields)
                       ELSE XMLType

(***************************************************************************)
(* InferSchema                                                             *)
(***************************************************************************)
ColumnInfo(name, type, is_attribute) ==
    [name |-> name, type |-> type, is_attribute |-> is_attribute]

S_content == <<"c","o","n","t","e","n","t">>

\* the entries of the column map in the order the unordered_map iterates them
IterateColumns(column_map, order) ==
    [i \in 1..Len(order) |->
        column_map[CHOOSE j \in 1..Len(column_map) : column_map[j].name = order[i]]]

\* InferSchema with the depth-limit column typed plain VARCHAR, like the fallback
InferSchema_DepthLimitVarchar(document, options, order) ==
    IF ~document.valid THEN <<ColumnInfo(S_content, VARCHAR, FALSE)>>
    ELSE
    LET root == document.root
        record_elements == IdentifyRecordElements(root, options)
        remaining_depth == EffectiveDepth(options) - 2
    IN IF record_elements = <<>> THEN <<ColumnInfo(S_content, VARCHAR, FALSE)>>
       ELSE IF remaining_depth < 0
       THEN <<ColumnInfo(NodeAt(root, record_elements[1]).name, VARCHAR, FALSE)>>
       ELSE LET column_map == IterateColumns(IdentifyColumns(root, record_elements, options), order)
                columns == [i \in 1..Len(column_map) |->
                              ColumnInfo(column_map[i].name,
                                         InferColumnType(root, column_map[i], remaining_depth, options),
                                         column_map[i].is_attribute)]
            IN IF columns = <<>> THEN <<ColumnInfo(S_content, VARCHAR, FALSE)>>
               ELSE columns

InferSchema(document, options, order) ==
    IF ~document.valid THEN <<ColumnInfo(S_content, VARCHAR, FALSE)>>
    ELSE
    LET root == document.root
        record_elements == IdentifyRecordElements(root, options)
        remaining_depth == EffectiveDepth(options) - 2
    IN IF record_elements = <<>> THEN <<ColumnInfo(S_content, VARCHAR, FALSE)>>
       ELSE IF remaining_depth < 0
       THEN LET record_name == NodeAt(root, record_elements[1]).name
            IN <<ColumnInfo(IF options.namespaces = "strip"
                            THEN StripNamespacePrefix(record_name) ELSE record_name,
                            XMLType, FALSE)>>
       ELSE LET column_map == IterateColumns(IdentifyColumns(root, record_elements, options), order)
                columns == [i \in 1..Len(column_map) |->
                              ColumnInfo(column_map[i].name,
                                         InferColumnType(root, column_map[i], remaining_depth, options),
                                         column_map[i].is_attribute)]
            IN IF columns = <<>> THEN <<ColumnInfo(S_content, VARCHAR, FALSE)>>
               ELSE columns

(***************************************************************************)
(* ExtractValueFromNode, ExtractStructFromNode, ExtractListFromNode        *)
(***************************************************************************)
\* the position of the first child element of that name, 0 when there is none
FirstChildNamed(node, name) ==
    LET hits == {i \in 1..Len(node.children) : node.children[i].name = name}
    IN IF hits = {} THEN 0 ELSE CHOOSE i \in hits : \A j \in hits : i <= j

RECURSIVE ExtractValueFromNode(_, _)

ExtractListFromNode(node, list_type) ==
    IF list_type.id # "LIST" THEN Null
    ELSE ListValue(list_type.child,
                   [i \in 1..Len(node.children) |->
                        ExtractValueFromNode(node.children[i], list_type.child)])

ExtractStructFromNode(node, struct_type) ==
    IF struct_type.id # "STRUCT" THEN Null
    ELSE StructValue(
           [f \in 1..Len(struct_type.fields) |->
              LET field_name == struct_type.fields[f].name
                  field_type == struct_type.fields[f].type
                  at == FirstChildNamed(node, field_name)
              IN [name |-> field_name,
                  value |-> IF HasProp(node, field_name)
                            THEN ConvertToValue(GetProp(node, field_name), field_type)
                            ELSE IF at # 0
                            THEN ExtractValueFromNode(node.children[at], field_type)
                            ELSE NullOf(field_type)]])

ExtractValueFromNode(node, target_type) ==
    CASE target_type.id = "LIST" -> ExtractListFromNode(node, target_type)
      [] target_type.id = "STRUCT" -> ExtractStructFromNode(node, target_type)
      [] OTHER -> ConvertToValue(CleanTextContent(NodeGetContent(node)), target_type)

(***************************************************************************)
(* ExtractData                                                             *)
(***************************************************************************)
\* "employee_id" -> "id": what follows the first underscore of the column name
AttributeNameOf(column_name) ==
    LET underscore_pos == Find(column_name, "_")
    IN IF underscore_pos # -1 THEN SubstrFrom(column_name, underscore_pos + 1) ELSE column_name

\* the cell of an attribute column
ExtractAttributeCell(current, column) ==
    LET attr_name == AttributeNameOf(column.name)
    IN IF HasProp(current, attr_name)
       THEN ConvertToValue(GetProp(current, attr_name), column.type)
       ELSE Null

\* the cell of a LIST column: every child of that name
ExtractListCell(current, column) ==
    LET element_type == column.type.child
        matching == SelectSeq(current.children, LAMBDA c : c.name = column.name)
        list_values == [i \in 1..Len(matching) |-> ExtractValueFromNode(matching[i], element_type)]
    IN IF list_values # <<>> THEN ListValue(element_type, list_values) ELSE Null

\* the cell of any other column: the first child of that name
ExtractElementCell(current, column) ==
    LET at == FirstChildNamed(current, column.name)
        child == current.children[at]
    IN IF at = 0 THEN ConvertToValue(<<>>, column.type)
       ELSE IF child.children # <<>>
       THEN IF column.type.id = "STRUCT" THEN ExtractValueFromNode(child, column.type)
            ELSE IF column.type.id = "VARCHAR" /\ column.type.alias = "xmlfragment"
            THEN ConvertToValue(Concat([i \in 1..Len(child.children) |->
                                            NodeDump(child.children[i])]), column.type)
            ELSE ConvertToValue(NodeDump(child), column.type)
       ELSE ConvertToValue(CleanTextContent(NodeGetContent(child)), column.type)

ExtractCell(current, column) ==
    IF column.is_attribute THEN ExtractAttributeCell(current, column)
    ELSE IF column.type.id = "LIST" THEN ExtractListCell(current, column)
    ELSE ExtractElementCell(current, column)

\* the rows of the records located: at the depth limit the serialized record,
\* otherwise one cell per column of the schema
ExtractRecords(root, record_elements, remaining_depth, schema) ==
    IF remaining_depth < 0
    THEN [r \in 1..Len(record_elements) |->
             <<StringValue(NodeDump(NodeAt(root, record_elements[r])))>>]
    ELSE [r \in 1..Len(record_elements) |->
             [c \in 1..Len(schema) |->
                 ExtractCell(NodeAt(root, record_elements[r]), schema[c])]]

\* ExtractData once auto schema = InferSchema(xml_content, options) is computed
ExtractDataFor(document, options, schema) ==
    IF schema = <<>> \/ ~document.valid THEN <<>>
    ELSE ExtractRecords(document.root, IdentifyRecordElements(document.root, options),
                        EffectiveDepth(options) - 2, schema)

\* ExtractData with the cell of a column left out of a row when the record has
\* neither an attribute nor a child for it
ExtractData_SkipAbsent(document, options, order) ==
    LET schema == InferSchema(document, options, order)
    IN IF schema = <<>> \/ ~document.valid THEN <<>>
       ELSE
       LET root == document.root
           record_elements == IdentifyRecordElements(root, options)
           remaining_depth == EffectiveDepth(options) - 2
       IN IF remaining_depth < 0
          THEN [r \in 1..Len(record_elements) |->
                   <<StringValue(NodeDump(NodeAt(root, record_elements[r])))>>]
          ELSE [r \in 1..Len(record_elements) |->
                   LET current == NodeAt(root, record_elements[r])
                       present == SelectSeq(schema, LAMBDA column :
                                     IF column.is_attribute
                                     THEN HasProp(current, AttributeNameOf(column.name))
                                     ELSE FirstChildNamed(current, column.name) # 0)
                   IN [c \in 1..Len(present) |-> ExtractCell(current, present[c])]]

ExtractData(document, options, order) ==
    ExtractDataFor(document, options, InferSchema(document, options, order))

(***************************************************************************)
(* ExtractDataWithSchema                                                   *)
(***************************************************************************)
\* ExtractExplicitCell with an untyped null for a column the record lacks
ExtractExplicitCell_UntypedNull(current, column_name, column_type) ==
    LET at == FirstChildNamed(current, column_name)
    IN IF HasProp(current, column_name)
       THEN ConvertToValue(GetProp(current, column_name), column_type)
       ELSE IF at # 0 THEN ExtractValueFromNode(current.children[at], column_type)
       ELSE Null

ExtractExplicitCell(current, column_name, column_type) ==
    LET at == FirstChildNamed(current, column_name)
    IN IF HasProp(current, column_name)
       THEN ConvertToValue(GetProp(current, column_name), column_type)
       ELSE IF at # 0 THEN ExtractValueFromNode(current.children[at], column_type)
       ELSE NullOf(column_type)

ExtractDataWithSchema(document, column_names, column_types, options) ==
    IF Len(column_names) # Len(column_types) THEN <<>>
    ELSE IF column_names = <<>> THEN <<>>
    ELSE IF ~document.valid THEN <<>>
    ELSE LET root == document.root
         IN [r \in 1..Len(root.children) |->
                [c \in 1..Len(column_names) |->
                    ExtractExplicitCell(root.children[r], column_names[c], column_types[c])]]

(***************************************************************************)
(* XMLSchemaOptions, with the defaults of the header                       *)
(***************************************************************************)
DefaultOptions ==
    [root_element |-> <<>>, max_depth |-> 10, attr_mode |-> "columns", attr_prefix |-> <<"@">>,
     namespaces |-> "strip", temporal_detection |-> TRUE, numeric_detection |-> TRUE,
     boolean_detection |-> TRUE, array_threshold |-> 80, record_element |-> <<>>,
     force_list |-> <<>>]

(***************************************************************************)
(* The documents and options the operations are applied to                 *)
(***************************************************************************)
\* the elements below the root of a generated document
MaxNodes == 3

N_root == <<"r","o","o","t">>
N_item == <<"i","t","e","m">>
N_name == <<"n","a","m","e">>
N_age == <<"a","g","e">>
N_tag == <<"t","a","g">>
N_id == <<"i","d">>
N_lang == <<"l","a","n","g">>
N_first == <<"f","i","r","s","t">>
N_zip == <<"z","i","p">>
T_Alice == <<"A","l","i","c","e">>
T_Bob == <<"B","o","b">>
T_30 == <<"3","0">>
T_25 == <<"2","5">>

Leaf(name, text) == Element(name, <<>>, text, <<>>)

\* the children a generated record is built from: two leaves and an element
\* with an attribute and a child of its own
ColumnNodes ==
    {Leaf(N_name, T_Alice),
     Leaf(N_age, T_30),
     Element(N_name, <<Attr(N_lang, <<"e","n">>)>>, <<>>, <<Leaf(N_first, <<"A","l">>)>>)}

\* a generated record is bare, or carries an attribute and direct text
RecordHeads == {[properties |-> <<>>, text |-> <<>>],
                [properties |-> <<Attr(N_id, <<"1">>)>>, text |-> <<"x">>]}

RecordsWith(k) ==
    {Element(N_item, h.properties, h.text, kids) : h \in RecordHeads, kids \in [1..k -> ColumnNodes]}

\* the sequences of n records that use at most budget children in all
RECURSIVE RecordSeqs(_, _)
RecordSeqs(n, budget) ==
    IF n = 0 THEN {<<>>}
    ELSE UNION {{<<r>> \o rest : r \in RecordsWith(k), rest \in RecordSeqs(n - 1, budget - k)} :
                    k \in 0..budget}

GeneratedRoots ==
    UNION {{Element(N_root, <<>>, <<>>, recs) : recs \in RecordSeqs(n, MaxNodes - n)} :
               n \in 0..MaxNodes}

\* <root><item><name>Alice</name><age>30</age></item>
\*       <item><name>Bob</name><age>25</age></item></root>
E2E1 ==
    Element(N_root, <<>>, <<>>,
        <<Element(N_item, <<>>, <<>>, <<Leaf(N_name, T_Alice), Leaf(N_age, T_30)>>),
          Element(N_item, <<>>, <<>>, <<Leaf(N_name, T_Bob), Leaf(N_age, T_25)>>)>>)

\* <root><item><tag>a</tag><tag>b</tag><tag>c</tag></item></root>
E2E2 ==
    Element(N_root, <<>>, <<>>,
        <<Element(N_item, <<>>, <<>>,
            <<Leaf(N_tag, <<"a">>), Leaf(N_tag, <<"b">>), Leaf(N_tag, <<"c">>)>>)>>)

\* <root><item id="1">x</item><item id="2">y</item></root>
E2E3 ==
    Element(N_root, <<>>, <<>>,
        <<Element(N_item, <<Attr(N_id, <<"1">>)>>, <<"x">>, <<>>),
          Element(N_item, <<Attr(N_id, <<"2">>)>>, <<"y">>, <<>>)>>)

Parsed(root) == [valid |-> TRUE, root |-> root]

\* a text the parser rejects: XMLDocRAII::IsValid() is false
InvalidDocument == [valid |-> FALSE]

Documents == {Parsed(r) : r \in GeneratedRoots \cup {E2E1, E2E2, E2E3}} \cup {InvalidDocument}

DepthChoices == {0, 1, 2, 3}

OptionChoices ==
    {[DefaultOptions EXCEPT !.max_depth = d, !.attr_mode = m, !.record_element = e,
                            !.force_list = f] :
        d \in DepthChoices, m \in {"columns", "discard"}, e \in {<<>>, N_item},
        f \in {<<>>, <<"/", "/">> \o N_name}}

\* the schemas ExtractDataWithSchema is called with, besides the inferred one
ExplicitSchemas ==
    {[names |-> <<N_name, N_age>>, types |-> <<VARCHAR, INTEGER>>],
     [names |-> <<N_id, N_zip, N_name>>, types |-> <<VARCHAR, INTEGER, STRUCT(<<[name |-> N_first, type |-> VARCHAR]>>)>>],
     [names |-> <<N_name, N_age>>, types |-> <<VARCHAR>>]}

Orderings(S) ==
    {p \in [1..Cardinality(S) -> S] : \A x \in S : \E i \in 1..Cardinality(S) : p[i] = x}

\* the names IdentifyColumns enters into its unordered_map for this input
ColumnKeys(document, options) ==
    IF ~document.valid THEN {}
    ELSE LET columns == IdentifyColumns(document.root,
                                        IdentifyRecordElements(document.root, options), options)
         IN {columns[i].name : i \in 1..Len(columns)}

(***************************************************************************)
(* The calls.  doc, opts: the document and options of the run; hashOrder:  *)
(* the order in which this build's unordered_map iterates the column map;  *)
(* op, args, result: the last call, its further arguments and its result.  *)
(***************************************************************************)
Init ==
    /\ doc \in Documents
    /\ opts \in OptionChoices
    /\ hashOrder \in Orderings(ColumnKeys(doc, opts))
    /\ op = "none"
    /\ args = <<>>
    /\ result = <<>>
    /\ NoScan
    /\ NoThreads

CallInferSchema ==
    /\ op' = "InferSchema"
    /\ args' = <<>>
    /\ result' = InferSchema(doc, opts, hashOrder)
    /\ UNCHANGED <<doc, opts, hashOrder>>
    /\ UNCHANGED scanVars
    /\ UNCHANGED parseVars

CallExtractData ==
    /\ op' = "ExtractData"
    /\ args' = <<>>
    /\ result' = ExtractData(doc, opts, hashOrder)
    /\ UNCHANGED <<doc, opts, hashOrder>>
    /\ UNCHANGED scanVars
    /\ UNCHANGED parseVars

SchemaOf(columns) ==
    [names |-> [i \in 1..Len(columns) |-> columns[i].name],
     types |-> [i \in 1..Len(columns) |-> columns[i].type]]

CallExtractDataWithSchema ==
    /\ \E schema \in ExplicitSchemas \cup {SchemaOf(InferSchema(doc, opts, hashOrder))} :
          /\ args' = schema
          /\ result' = ExtractDataWithSchema(doc, schema.names, schema.types, opts)
    /\ op' = "ExtractDataWithSchema"
    /\ UNCHANGED <<doc, opts, hashOrder>>
    /\ UNCHANGED scanVars
    /\ UNCHANGED parseVars

Next == CallInferSchema \/ CallExtractData \/ CallExtractDataWithSchema

Spec == Init /\ [][Next]_vars

(***************************************************************************)
(* The scalar detector applied to sample lists: args is the list           *)
(***************************************************************************)
\* the longest sample list drawn
MaxSamples == 10

T_abc == <<"a","b","c">>

\* every list of integer and non-numeric samples, alone or behind an empty sample
SampleLists ==
    LET lists == UNION {[1..n -> {T_30, T_abc}] : n \in 0..MaxSamples}
    IN lists \cup {<<(<<>>)>> \o l : l \in lists}

DetectOptionChoices ==
    {[DefaultOptions EXCEPT !.array_threshold = t, !.numeric_detection = n] :
        t \in {60, 80, 100}, n \in BOOLEAN}

InitDetect ==
    /\ doc = InvalidDocument
    /\ opts \in DetectOptionChoices
    /\ hashOrder = <<>>
    /\ op = "none"
    /\ args \in SampleLists
    /\ result = <<>>
    /\ NoScan
    /\ NoThreads

CallInferTypeFromSamples ==
    /\ op' = "InferTypeFromSamples"
    /\ result' = InferTypeFromSamples(args, opts)
    /\ UNCHANGED <<doc, opts, hashOrder, args>>
    /\ UNCHANGED scanVars
    /\ UNCHANGED parseVars

NextDetect == CallInferTypeFromSamples

SpecDetect == InitDetect /\ [][NextDetect]_vars

(***************************************************************************)
(* ConvertToValue applied to texts and target types: args is the pair      *)
(***************************************************************************)
ConvertTexts ==
    {<<>>, T_30, T_abc, T_Alice,
     <<"1">>, <<"0">>, <<"T","r","u","e">>, <<"o","f","f">>, <<"m","a","y","b","e">>,
     <<"-","7">>, <<"1","2","a","b","c">>, <<"0","0","7">>,
     <<"2","1","4","7","4","8","3","6","4","7">>, <<"2","1","4","7","4","8","3","6","4","8">>,
     <<"3",".","5">>, <<"1","e","5">>, <<"1",".","5","x">>, <<".">>,
     <<"2","0","2","4","-","0","1","-","1","5">>, <<"2","0","2","4","-","0","2","-","3","0">>,
     <<"a","b","c","d","-","e","f","-","g","h">>, <<"0","1","/","1","5","/","2","0","2","4">>,
     <<"2","0","2","4","-","0","1","-","1","5","T","1","0",":","3","0",":","0","0">>,
     <<"2","0","2","4","-","0","1","-","1","5"," ","2","5",":","3","0",":","0","0">>,
     <<"1","0",":","3","0">>}

ConvertTypes == {VARCHAR, BOOLEAN_T, INTEGER, BIGINT, DOUBLE, DATE, TIMESTAMP, TIME, XMLType}

InitConvert ==
    /\ doc = InvalidDocument
    /\ opts = DefaultOptions
    /\ hashOrder = <<>>
    /\ op = "none"
    /\ args \in [text : ConvertTexts, type : ConvertTypes]
    /\ result = <<>>
    /\ NoScan
    /\ NoThreads

CallConvertToValue ==
    /\ op' = "ConvertToValue"
    /\ result' = ConvertToValue(args.text, args.type)
    /\ UNCHANGED <<doc, opts, hashOrder, args>>
    /\ UNCHANGED scanVars
    /\ UNCHANGED parseVars

NextConvert == CallConvertToValue

SpecConvert == InitConvert /\ [][NextConvert]_vars

(***************************************************************************)
(* The table functions read_xml / read_html and read_xml_objects            *)
(* (xml_reader_functions.cpp): bind, then one call per output chunk         *)
(***************************************************************************)
\* STANDARD_VECTOR_SIZE of the host, the rows one output chunk holds, scaled down
StandardVectorSize == 2

\* bind_data.max_file_size in bytes, scaled down
SizeLimit == 1

\* the longest file list bound
MaxFiles == 2

DigitChar(n) == CHOOSE c \in Digits : DigitVal(c) = n

\* std::to_string of a non-negative integer
RECURSIVE ToDigits(_)
ToDigits(n) ==
    IF n < 10 THEN <<DigitChar(n)>> ELSE ToDigits(n \div 10) \o <<DigitChar(n % 10)>>

\* Value::ToString of the host for the values the scanned files give
Render(value) ==
    CASE value.k = "VARCHAR" -> value.v
      [] value.k = "INTEGER" ->
            IF value.n < 0 THEN <<"-">> \o ToDigits(0 - value.n) ELSE ToDigits(value.n)
      [] value.k = "BOOLEAN" -> IF value.b THEN S_true ELSE S_false
      [] OTHER -> value.v

\* the host's cast of a string to the vector's type: the whole string has to be
\* a literal of the type, otherwise the cast throws a ConversionException
CastString(text, type) ==
    CASE type.id = "VARCHAR" -> [thrown |-> FALSE, value |-> StringValue(text)]
      [] type.id = "INTEGER" ->
            IF IsInteger(Trim(text)) /\ ~Stoi(Trim(text)).thrown
            THEN [thrown |-> FALSE, value |-> IntegerValue(Stoi(Trim(text)).val)]
            ELSE [thrown |-> TRUE, value |-> Null]
      [] type.id = "BOOLEAN" ->
            IF Lower(Trim(text)) \in {S_true, <<"t">>, <<"1">>, S_yes}
            THEN [thrown |-> FALSE, value |-> BooleanValue(TRUE)]
            ELSE IF Lower(Trim(text)) \in {S_false, <<"f">>, <<"0">>, S_no}
            THEN [thrown |-> FALSE, value |-> BooleanValue(FALSE)]
            ELSE [thrown |-> TRUE, value |-> Null]
      [] type.id = "BIGINT" ->
            IF IsInteger(Trim(text))
            THEN [thrown |-> FALSE, value |-> NumeralValue("BIGINT", Trim(text))]
            ELSE [thrown |-> TRUE, value |-> Null]
      [] type.id = "DOUBLE" ->
            IF IsDouble(Trim(text))
            THEN [thrown |-> FALSE, value |-> NumeralValue("DOUBLE", Trim(text))]
            ELSE [thrown |-> TRUE, value |-> Null]
      [] type.id = "DATE" ->
            IF ValidDate(Trim(text))
            THEN [thrown |-> FALSE, value |-> NumeralValue("DATE", Trim(text))]
            ELSE [thrown |-> TRUE, value |-> Null]
      [] type.id = "TIMESTAMP" ->
            IF ValidTimestamp(Trim(text))
            THEN [thrown |-> FALSE, value |-> NumeralValue("TIMESTAMP", Trim(text))]
            ELSE [thrown |-> TRUE, value |-> Null]
      [] OTHER -> [thrown |-> TRUE, value |-> Null]

\* Vector::SetValue(index, val): a null is stored as a null of the vector, a value
\* of the vector's type as it is, any other value after val.DefaultCastAs(type),
\* which throws when the value has no form in that type.  The scanned files hold
\* strings, integers and booleans.
SetValue(val, type) ==
    IF IsNull(val) THEN [thrown |-> FALSE, value |-> NullOf(type)]
    ELSE IF val.k = type.id /\ (type.id \in {"LIST", "STRUCT"} \/ type.alias = "")
    THEN [thrown |-> FALSE, value |-> val]
    ELSE IF val.k = "BOOLEAN" /\ type.id = "INTEGER"
    THEN [thrown |-> FALSE, value |-> IntegerValue(IF val.b THEN 1 ELSE 0)]
    ELSE IF val.k = "INTEGER" /\ type.id = "BOOLEAN"
    THEN [thrown |-> FALSE, value |-> BooleanValue(val.n # 0)]
    ELSE CastString(Render(val), type)

\* what a slot of an output vector holds that no SetValue wrote
Unwritten == [k |-> "UNWRITTEN"]

\* one file of the scan: its path, its size in bytes, what its content parses to
\* and the order in which the column map of that content iterates
File(name, size, content, order) ==
    [name |-> name, size |-> size, content |-> content, order |-> order]

\* one row of an output chunk.  file and, per cell, column record where the value
\* comes from: the index of the file and the name of the column it was extracted for
OutputRow(file, cells) == [file |-> file, cells |-> cells]

\* the inner loop over col_idx: one SetValue per column that both the chunk and
\* the extracted row have
WriteRow(types, row, columns, file) ==
    [thrown |-> \E c \in 1..Len(types) : c <= Len(row) /\ SetValue(row[c], types[c]).thrown,
     row |-> OutputRow(file,
                [c \in 1..Len(types) |->
                    IF c <= Len(row)
                    THEN [value |-> SetValue(row[c], types[c]).value, column |-> columns[c]]
                    ELSE [value |-> Unwritten, column |-> <<>>]])]

\* the loop over extracted_rows: it ends when the chunk is full or a SetValue throws
RECURSIVE FillRows(_, _, _, _, _)

FillNext(types, rest, columns, file, out, written) ==
    IF written.thrown THEN [out |-> out, thrown |-> TRUE]
    ELSE FillRows(types, rest, columns, file, Append(out, written.row))

FillRows(types, extracted_rows, columns, file, out) ==
    IF extracted_rows = <<>> \/ Len(out) >= StandardVectorSize
    THEN [out |-> out, thrown |-> FALSE]
    ELSE FillNext(types, Tail(extracted_rows), columns, file, out,
                  WriteRow(types, Head(extracted_rows), columns, file))

ColumnNames(columns) == [i \in 1..Len(columns) |-> columns[i].name]

ColumnTypes(columns) == [i \in 1..Len(columns) |-> columns[i].type]

\* the rows ExtractData gives for the file, each cell under the name of the
\* column of the file's own schema it was extracted for
FillInferred(bind, options, file, out, schema) ==
    FillRows(bind.types, ExtractDataFor(bind.files[file].content, options, schema),
             ColumnNames(schema), file, out)

\* ReadOneFile without the check of the file size
ReadOneFile_NoSizeCheck(bind, options, file, out) ==
    IF bind.parse_mode = "XML" /\ ~bind.files[file].content.valid
    THEN [out |-> out, thrown |-> ~bind.ignore_errors]
    ELSE IF bind.has_explicit_schema
    THEN FillRows(bind.types,
                  ExtractDataWithSchema(bind.files[file].content, bind.column_names,
                                        bind.column_types, options),
                  bind.column_names, file, out)
    ELSE FillInferred(bind, options, file, out,
                      InferSchema(bind.files[file].content, options, bind.files[file].order))

\* the body of the try block of ReadXMLFunction / ReadDocumentFunction for the
\* file at position file: out is the chunk so far, thrown an Exception
ReadOneFile(bind, options, file, out) ==
    IF bind.files[file].size > bind.max_file_size
    THEN [out |-> out, thrown |-> ~bind.ignore_errors]
    ELSE IF bind.parse_mode = "XML" /\ ~bind.files[file].content.valid
    THEN [out |-> out, thrown |-> ~bind.ignore_errors]
    ELSE IF bind.has_explicit_schema
    THEN FillRows(bind.types,
                  ExtractDataWithSchema(bind.files[file].content, bind.column_names,
                                        bind.column_types, options),
                  bind.column_names, file, out)
    ELSE FillInferred(bind, options, file, out,
                      InferSchema(bind.files[file].content, options, bind.files[file].order))

\* the body of the try block of ReadXMLObjectsFunction: one row per file
ReadOneObject(bind, file, out) ==
    IF bind.files[file].size > bind.max_file_size
    THEN [out |-> out, thrown |-> ~bind.ignore_errors]
    ELSE IF ~bind.files[file].content.valid
    THEN [out |-> out, thrown |-> ~bind.ignore_errors]
    ELSE [out |-> Append(out, OutputRow(file,
                     <<[value |-> bind.files[file].content, column |-> <<"x","m","l">>]>>)),
          thrown |-> FALSE]

\* the while loop of ReadXMLFunction: file_index counts the files taken
RECURSIVE ScanLoop(_, _, _, _)

\* ScanNext with the call ended after every file, whatever it gave
ScanNext_OneFilePerCall(bind, options, file_index, read) ==
    [file_index |-> file_index, out |-> read.out,
     raised |-> read.thrown /\ ~bind.ignore_errors]

ScanNext(bind, options, file_index, read) ==
    IF read.thrown /\ ~bind.ignore_errors
    THEN [file_index |-> file_index, out |-> read.out, raised |-> TRUE]
    ELSE ScanLoop(bind, options, file_index, read.out)

ScanLoop(bind, options, file_index, out) ==
    IF ~(Len(out) < StandardVectorSize /\ file_index < Len(bind.files))
    THEN [file_index |-> file_index, out |-> out, raised |-> FALSE]
    ELSE ScanNext(bind, options, file_index + 1,
                  ReadOneFile(bind, options, file_index + 1, out))

\* the while loop of ReadXMLObjectsFunction
RECURSIVE ObjectsLoop(_, _, _)

ObjectsNext(bind, file_index, read) ==
    IF read.thrown /\ ~bind.ignore_errors
    THEN [file_index |-> file_index, out |-> read.out, raised |-> TRUE]
    ELSE ObjectsLoop(bind, file_index, read.out)

ObjectsLoop(bind, file_index, out) ==
    IF ~(Len(out) < StandardVectorSize /\ file_index < Len(bind.files))
    THEN [file_index |-> file_index, out |-> out, raised |-> FALSE]
    ELSE ObjectsNext(bind, file_index + 1, ReadOneObject(bind, file_index + 1, out))

\* the schema inference of ReadXMLBind / ReadDocumentBind on the first file, whose
\* content InferSchema gives inferred_columns for
BindSchema(files, ignore_errors, max_file_size, inferred_columns) ==
    IF files[1].size > max_file_size \/ ~files[1].content.valid
    THEN [thrown |-> ~ignore_errors,
          names |-> <<(<<"x","m","l">>)>>, types |-> <<XMLType>>]
    ELSE [thrown |-> FALSE,
          names |-> ColumnNames(inferred_columns),
          types |-> ColumnTypes(inferred_columns)]

\* XMLReadFunctionData and the return schema after a bind that did not throw
BoundData(files, ignore_errors, columns, inferred) ==
    [bound |-> TRUE, function |-> "read_xml", files |-> files,
     ignore_errors |-> ignore_errors, max_file_size |-> SizeLimit,
     parse_mode |-> "XML",
     has_explicit_schema |-> columns # <<>>,
     column_names |-> IF columns = <<>> THEN <<>> ELSE columns.names,
     column_types |-> IF columns = <<>> THEN <<>> ELSE columns.types,
     names |-> IF columns = <<>> THEN inferred.names ELSE columns.names,
     types |-> IF columns = <<>> THEN inferred.types ELSE columns.types]

(***************************************************************************)
(* The scans: the files, the named parameters and the calls of the host     *)
(***************************************************************************)
T_Carol == <<"C","a","r","o","l">>

Person(name, age) == Element(N_item, <<>>, <<>>, <<Leaf(N_name, name), Leaf(N_age, age)>>)

\* three records, one more than a chunk holds
ThreePeople ==
    Element(N_root, <<>>, <<>>,
        <<Person(T_Alice, T_30), Person(T_Bob, T_25), Person(T_Carol, T_30)>>)

\* a first record whose age is no integer, then a well-formed one
BadAgeFirst ==
    Element(N_root, <<>>, <<>>, <<Person(T_Bob, T_abc), Person(T_Alice, T_30)>>)

\* records that have the age only
AgesOnly ==
    Element(N_root, <<>>, <<>>,
        <<Element(N_item, <<>>, <<>>, <<Leaf(N_age, T_25)>>),
          Element(N_item, <<>>, <<>>, <<Leaf(N_age, T_30)>>)>>)

NameAge == <<N_name, N_age>>
AgeName == <<N_age, N_name>>

\* <root><item><age>41</age><name>Carol</name></item></root>
AgeFirst ==
    Element(N_root, <<>>, <<>>,
        <<Element(N_item, <<>>, <<>>, <<Leaf(N_age, <<"4", "1">>), Leaf(N_name, T_Carol)>>)>>)

FileChoices ==
    {File("people.xml", SizeLimit, Parsed(E2E1), NameAge),
     File("people2.xml", SizeLimit, Parsed(AgeFirst), AgeName),
     File("big.xml", SizeLimit + 1, Parsed(E2E1), NameAge),
     File("three.xml", SizeLimit, Parsed(ThreePeople), NameAge),
     File("badage.xml", SizeLimit, Parsed(BadAgeFirst), NameAge),
     File("ages.xml", SizeLimit, Parsed(AgesOnly), <<N_age>>),
     File("broken.xml", SizeLimit, InvalidDocument, <<>>)}

FileLists == UNION {[1..n -> FileChoices] : n \in 1..MaxFiles}

\* the columns parameter of read_xml, when given
ScanColumns == [names |-> NameAge, types |-> <<VARCHAR, INTEGER>>]

InitScan ==
    /\ doc = InvalidDocument
    /\ opts = DefaultOptions
    /\ hashOrder = <<>>
    /\ op = "none"
    /\ args = <<>>
    /\ result = <<>>
    /\ NoScan
    /\ NoThreads

\* ReadXMLBind, and ReadDocumentBind in XML mode: the file list, the named
\* parameters, and without a columns parameter the schema inferred from the first file
BindResult(files, ignore_errors, columns, inferred) ==
    IF columns = <<>> /\ inferred.thrown
    THEN /\ raised' = TRUE
         /\ UNCHANGED bind_data
    ELSE /\ raised' = FALSE
         /\ bind_data' = BoundData(files, ignore_errors, columns, inferred)

CallReadXMLBind ==
    /\ ~bind_data.bound
    /\ ~raised
    /\ \E files \in FileLists, ignore_errors \in BOOLEAN, columns \in {<<>>, ScanColumns} :
          /\ args' = [files |-> files, ignore_errors |-> ignore_errors, columns |-> columns]
          /\ BindResult(files, ignore_errors, columns,
                        BindSchema(files, ignore_errors, SizeLimit,
                                   InferSchema(files[1].content, opts, files[1].order)))
    /\ op' = "ReadXMLBind"
    /\ UNCHANGED <<doc, opts, hashOrder, result, gstate, output>>
    /\ UNCHANGED parseVars

\* ReadXMLObjectsBind: the file list and the one xml column
CallReadXMLObjectsBind ==
    /\ ~bind_data.bound
    /\ ~raised
    /\ \E files \in FileLists, ignore_errors \in BOOLEAN :
          /\ args' = [files |-> files, ignore_errors |-> ignore_errors, columns |-> <<>>]
          /\ bind_data' =
                [bound |-> TRUE, function |-> "read_xml_objects", files |-> files,
                 ignore_errors |-> ignore_errors, max_file_size |-> SizeLimit,
                 parse_mode |-> "XML", has_explicit_schema |-> FALSE,
                 column_names |-> <<>>, column_types |-> <<>>,
                 names |-> <<(<<"x","m","l">>)>>, types |-> <<XMLType>>]
    /\ op' = "ReadXMLObjectsBind"
    /\ UNCHANGED <<doc, opts, hashOrder, result, gstate, output, raised>>
    /\ UNCHANGED parseVars

\* the host has not seen the end of the scan: it calls until a chunk is empty
ScanOpen ==
    /\ bind_data.bound
    /\ ~raised
    /\ op \in {"ReadXMLFunction", "ReadXMLObjectsFunction"} => result # <<>>

\* one call of a scan function: scanned is where its loop ends
ScanCall(name, scanned) ==
    /\ op' = name
    /\ gstate' = [file_index |-> scanned.file_index]
    /\ raised' = scanned.raised
    /\ result' = IF scanned.raised THEN <<>> ELSE scanned.out
    /\ output' = IF scanned.raised \/ scanned.out = <<>> THEN output
                 ELSE Append(output, scanned.out)
    /\ UNCHANGED <<doc, opts, hashOrder, args, bind_data>>
    /\ UNCHANGED parseVars

\* ReadXMLFunction, and ReadDocumentFunction in XML mode
CallReadXMLFunction ==
    /\ ScanOpen
    /\ bind_data.function = "read_xml"
    /\ ScanCall("ReadXMLFunction", ScanLoop(bind_data, opts, gstate.file_index, <<>>))

CallReadXMLObjectsFunction ==
    /\ ScanOpen
    /\ bind_data.function = "read_xml_objects"
    /\ ScanCall("ReadXMLObjectsFunction", ObjectsLoop(bind_data, gstate.file_index, <<>>))

NextScan ==
    \/ CallReadXMLBind
    \/ CallReadXMLObjectsBind
    \/ CallReadXMLFunction
    \/ CallReadXMLObjectsFunction

SpecScan == InitScan /\ [][NextScan]_vars

\* the host calls the scan function of a bound table function again and again
\* until a call returns an empty chunk or raises
\* A call of ReadXMLFunction on an open scan always changes the state: it raises,
\* returns the empty chunk after a chunk that was not empty, or lengthens output.
\* So the call is enabled exactly where the scan is open, and its weak fairness
\* is stated with that condition written out.
FairReadXMLFunction ==
    \/ []<>~(ScanOpen /\ bind_data.function = "read_xml")
    \/ []<><<CallReadXMLFunction>>_vars

SpecScanLive ==
    /\ SpecScan
    /\ FairReadXMLFunction
    /\ WF_vars(CallReadXMLObjectsFunction)

(***************************************************************************)
(* The Record Locator applied on its own                                   *)
(***************************************************************************)
N_rows == <<"r","o","w","s">>
X_malformed == <<"/","/","i","t","e","m","[">>
X_absolute == <<"/","r","o","o","t","/","i","t","e","m">>

\* <root><rows><item><name>Alice</name></item><item><name>Bob</name></item></rows></root>
Wrapped ==
    Element(N_root, <<>>, <<>>,
        <<Element(N_rows, <<>>, <<>>,
            <<Element(N_item, <<>>, <<>>, <<Leaf(N_name, T_Alice)>>),
              Element(N_item, <<>>, <<>>, <<Leaf(N_name, T_Bob)>>)>>)>>)

LocateDocuments == {Parsed(r) : r \in GeneratedRoots \cup {E2E1, E2E2, E2E3, Wrapped}}

LocateDepths == {-1, 0, 1, 2, 20, 21}

LocateOptions ==
    {[DefaultOptions EXCEPT !.max_depth = d, !.record_element = e, !.root_element = r] :
        d \in LocateDepths,
        e \in {<<>>, N_item, N_zip, <<"/", "/">> \o N_item, X_absolute, X_malformed},
        r \in {<<>>, N_rows, N_zip}}

InitLocate ==
    /\ doc \in LocateDocuments
    /\ opts \in LocateOptions
    /\ hashOrder = <<>>
    /\ op = "none"
    /\ args = <<>>
    /\ result = <<>>
    /\ NoScan
    /\ NoThreads

CallIdentifyRecordElements ==
    /\ op' = "IdentifyRecordElements"
    /\ result' = IdentifyRecordElements(doc.root, opts)
    /\ UNCHANGED <<doc, opts, hashOrder, args>>
    /\ UNCHANGED scanVars
    /\ UNCHANGED parseVars

NextLocate == CallIdentifyRecordElements

SpecLocate == InitLocate /\ [][NextLocate]_vars

(***************************************************************************)
(* Properties                                                              *)
(***************************************************************************)
\* the records the Record Locator returns for the run's document and options
Located == IF doc.valid THEN IdentifyRecordElements(doc.root, opts) ELSE <<>>

RemainingDepth == EffectiveDepth(opts) - 2

RepeatsInSomeRecord(name) ==
    \E r \in 1..Len(Located) :
        Cardinality({i \in 1..Len(NodeAt(doc.root, Located[r]).children) :
                        NodeAt(doc.root, Located[r]).children[i].name = name}) > 1

\* no located record has that name as an attribute
NoAttributeNamed(name) ==
    \A r \in 1..Len(Located) : ~HasProp(NodeAt(doc.root, Located[r]), name)

\* every direct child with that tag, in every located record, is text only
AllInstancesLeaf(name) ==
    \A r \in 1..Len(Located) :
        \A i \in 1..Len(NodeAt(doc.root, Located[r]).children) :
            LET child == NodeAt(doc.root, Located[r]).children[i]
            IN child.name = name => (child.children = <<>> /\ child.properties = <<>>)

\* C2 (as claimed): a column that some record repeats, every instance a text-only
\* leaf, is typed List(...) by InferSchema, and for
\* <item><tag>a</tag><tag>b</tag><tag>c</tag></item> ExtractData returns the one
\* row (['a','b','c']).
C2_RepeatedLeafIsList ==
    /\ (op = "InferSchema" /\ doc.valid /\ RemainingDepth >= 0) =>
          \A c \in 1..Len(result) :
              (/\ ~result[c].is_attribute
               /\ RepeatsInSomeRecord(result[c].name)
               /\ AllInstancesLeaf(result[c].name)
               /\ NoAttributeNamed(result[c].name))
              => result[c].type.id = "LIST"
    /\ (op = "ExtractData" /\ doc = Parsed(E2E2) /\ RemainingDepth >= 0
            /\ opts.record_element = <<>>) =>
          result = <<(<<ListValue(VARCHAR, <<StringValue(<<"a">>), StringValue(<<"b">>),
                                            StringValue(<<"c">>)>>)>>)>>

\* the column names IdentifyColumns meets, in first-document-occurrence order
FirstOccurrenceOrder ==
    LET columns == IdentifyColumns(doc.root, Located, opts)
    IN [i \in 1..Len(columns) |-> columns[i].name]

\* InferSchema reaches the column analysis and finds a column
ColumnsAnalysed == doc.valid /\ Located # <<>> /\ RemainingDepth >= 0 /\ FirstOccurrenceOrder # <<>>

\* C3 (as claimed): InferSchema returns the top-level columns in
\* first-document-occurrence order, whatever the iteration order of the hash table.
C3_FirstOccurrenceOrder ==
    (op = "InferSchema" /\ ColumnsAnalysed) =>
        [i \in 1..Len(result) |-> result[i].name] = FirstOccurrenceOrder

\* C4 (as claimed): the scalar detector returns kind K when the non-empty samples
\* classified K are at least the configured homogeneity threshold
\* (array_threshold, default 0.8) of the non-empty samples, and String otherwise.
C4_ConfiguredThreshold ==
    op = "InferTypeFromSamples" =>
        LET kinds == DetectAll(args, opts)
            passing == {id \in {kinds[i] : i \in 1..Len(kinds)} :
                          Count(kinds, id) * 100 >= opts.array_threshold * Len(kinds)}
        IN IF passing # {} THEN result.id \in passing /\ result.alias = ""
           ELSE result = VARCHAR

\* every located record has one attribute and direct text, and no child element
AttributeAndTextRecords ==
    /\ doc.valid
    /\ Located # <<>>
    /\ \A r \in 1..Len(Located) :
          LET record == NodeAt(doc.root, Located[r])
          IN Len(record.properties) = 1 /\ record.text # <<>> /\ record.children = <<>>
                /\ record.properties[1].name = NodeAt(doc.root, Located[1]).properties[1].name

\* C5 (as claimed): for records with an attribute and direct text but no child
\* elements, attribute mode columns, InferSchema returns the attribute column
\* (String) followed by a text column (String), and ExtractData returns for each
\* record the pair (attribute value, text).
C5_AttributeAndTextColumns ==
    (AttributeAndTextRecords /\ RemainingDepth >= 0 /\ opts.attr_mode = "columns") =>
        /\ op = "InferSchema" =>
              /\ Len(result) = 2
              /\ result[1] = ColumnInfo(NodeAt(doc.root, Located[1]).properties[1].name,
                                        VARCHAR, TRUE)
              /\ result[2].type = VARCHAR /\ ~result[2].is_attribute
        /\ op = "ExtractData" =>
              result = [r \in 1..Len(Located) |->
                          <<StringValue(NodeAt(doc.root, Located[r]).properties[1].value),
                            StringValue(NodeAt(doc.root, Located[r]).text)>>]

\* C6: when the options leave a negative remaining depth (effective max depth 0
\* or 1) and a record is located, InferSchema returns exactly one column, named
\* after the tag of the (first) record and typed OpaqueDocument, whatever the
\* records contain, and ExtractData returns for each record a one-cell row holding
\* the serialization of the whole record element.
C6_DepthLimitSingleColumn ==
    (doc.valid /\ RemainingDepth < 0 /\ Located # <<>>) =>
        /\ op = "InferSchema" =>
              result = <<ColumnInfo(NodeAt(doc.root, Located[1]).name, XMLType, FALSE)>>
        /\ op = "ExtractData" =>
              /\ Len(result) = Len(Located)
              /\ \A r \in 1..Len(result) :
                    result[r] = <<StringValue(NodeDump(NodeAt(doc.root, Located[r])))>>

\* C6 witness: at max depth 1, InferSchema has returned the one opaque column for
\* records that have children of their own
C6_Witness ==
    /\ op = "InferSchema"
    /\ doc.valid
    /\ opts.max_depth = 1
    /\ Len(Located) = 2
    /\ NodeAt(doc.root, Located[1]).children # <<>>
    /\ result = <<ColumnInfo(N_item, XMLType, FALSE)>>

\* the records yield no column although the depth allows columns
NoColumnsFound ==
    /\ Located # <<>>
    /\ RemainingDepth >= 0
    /\ IdentifyColumns(doc.root, Located, opts) = <<>>

\* C7 (as claimed): when the Record Locator returns no records, or the records
\* yield zero columns, InferSchema returns exactly one column, named "content"
\* and typed OpaqueDocument.
C7_FallbackIsOpaque ==
    (op = "InferSchema" /\ doc.valid /\ (Located = <<>> \/ NoColumnsFound)) =>
        result = <<ColumnInfo(S_content, XMLType, FALSE)>>

\* C8 (as claimed): ExtractDataWithSchema called with the column names and types
\* that InferSchema returns for the document and options yields the same rows as
\* ExtractData for that document and those options.
C8_InferredSchemaSameRows ==
    (op = "ExtractDataWithSchema" /\ args = SchemaOf(InferSchema(doc, opts, hashOrder))) =>
        result = ExtractData(doc, opts, hashOrder)

\* the record has neither an attribute nor a direct child element of that name
LacksColumn(record, column_name) ==
    /\ \A i \in 1..Len(record.properties) : record.properties[i].name # column_name
    /\ \A i \in 1..Len(record.children) : record.children[i].name # column_name

\* C9: ExtractDataWithSchema, given as many names as types and a document that
\* parses, returns one row per element child of the root, each row as long as
\* the declared column list, and the cell of every declared column for which the
\* record has neither a matching attribute nor a matching direct child element
\* is a null of the declared type.
C9_MissingColumnIsTypedNull ==
    (op = "ExtractDataWithSchema" /\ doc.valid /\ Len(args.names) = Len(args.types)) =>
        /\ Len(result) = Len(doc.root.children)
        /\ \A r \in 1..Len(result) :
              /\ Len(result[r]) = Len(args.names)
              /\ \A c \in 1..Len(args.names) :
                    LacksColumn(doc.root.children[r], args.names[c]) =>
                        result[r][c] = NullOf(args.types[c])

\* C9 witness: a row of three cells whose record has the id attribute but no zip,
\* so the first cell is a value and the second a null of the declared INTEGER
C9_Witness ==
    /\ op = "ExtractDataWithSchema"
    /\ args.names = <<N_id, N_zip, N_name>>
    /\ Len(result) >= 1
    /\ Len(result[1]) = 3
    /\ ~IsNull(result[1][1])
    /\ result[1][2] = NullOf(INTEGER)

\* the whole text is a literal of the target scalar type
ParsesAs(text, type) ==
    CASE type.id = "BOOLEAN" -> IsBoolean(text)
      [] type.id \in {"INTEGER", "BIGINT"} -> IsInteger(text)
      [] type.id = "DOUBLE" -> IsDouble(text)
      [] type.id = "DATE" -> IsDate(text)
      [] type.id = "TIMESTAMP" -> IsTimestamp(text)
      [] OTHER -> TRUE

\* C10 (as claimed): ConvertToValue gives null for the empty text, and gives any
\* non-empty text that does not parse as the target scalar type back as the raw
\* text in a String value, never as null or as a partially parsed number.
C10_UnparsableKeepsRawText ==
    op = "ConvertToValue" =>
        /\ args.text = <<>> => IsNull(result)
        /\ (args.text # <<>> /\ ~ParsesAs(args.text, args.type)) =>
              result = StringValue(args.text)

\* no element of the document bears the name
NoElementNamed(root, tag) ==
    \A i \in 1..Len(Preorder(root, <<>>)) : NodeAt(root, Preorder(root, <<>>)[i]).name # tag

\* C11 (as claimed): at an effective depth other than 0 the Record Locator
\* returns the empty list when an explicit root name is given that no element
\* bears, and when the record-locator expression is malformed or names a tag no
\* element bears; it does not fall back to the children of the document root.
C11_UnresolvedGivesEmpty ==
    (op = "IdentifyRecordElements" /\ EffectiveDepth(opts) # 0) =>
        /\ (/\ opts.record_element = <<>>
            /\ opts.root_element # <<>>
            /\ NoElementNamed(doc.root, opts.root_element)) => result = <<>>
        /\ (\/ opts.record_element = X_malformed
            \/ /\ opts.record_element # <<>>
               /\ IsSimpleTag(opts.record_element)
               /\ NoElementNamed(doc.root, opts.record_element)) => result = <<>>

\* the rows extraction returns for the file at position file of the bound list
ExtractedRows(file) ==
    IF bind_data.has_explicit_schema
    THEN ExtractDataWithSchema(bind_data.files[file].content, bind_data.column_names,
                               bind_data.column_types, opts)
    ELSE ExtractData(bind_data.files[file].content, opts, bind_data.files[file].order)

\* the names of the columns the cells of those rows were extracted for
ExtractedColumns(file) ==
    IF bind_data.has_explicit_schema THEN bind_data.column_names
    ELSE ColumnNames(InferSchema(bind_data.files[file].content, opts,
                                 bind_data.files[file].order))

\* the file is within the size limit and parses
Readable(file) ==
    /\ bind_data.files[file].size <= bind_data.max_file_size
    /\ bind_data.files[file].content.valid

\* every row handed to the host so far, chunk after chunk
Emitted == Concat(output)

\* C12 (as claimed): with ignore_errors set, when read_xml scans one readable
\* file whose records all fit one chunk, every record of the file whose row can
\* be written is emitted, also when writing the row of another record of the
\* file fails.
C12_OtherRecordsEmitted ==
    (/\ op = "ReadXMLFunction"
     /\ bind_data.ignore_errors
     /\ Len(bind_data.files) = 1
     /\ Readable(1)
     /\ Len(ExtractedRows(1)) <= StandardVectorSize) =>
        \A r \in 1..Len(ExtractedRows(1)) :
            ~WriteRow(bind_data.types, ExtractedRows(1)[r], ExtractedColumns(1), 1).thrown =>
                \E i \in 1..Len(Emitted) :
                    Emitted[i] = WriteRow(bind_data.types, ExtractedRows(1)[r],
                                          ExtractedColumns(1), 1).row

\* the scan functions
ScanFunctions == {"ReadXMLFunction", "ReadXMLObjectsFunction"}

\* the file at that position of the list is larger than maximum_file_size
Oversize(files, file) == files[file].size > SizeLimit

\* C13: no row of a file larger than maximum_file_size is ever emitted.  With
\* ignore_errors false the scan call that takes such a file raises, hands no
\* chunk to the host and takes no further file, and the bind that infers the
\* schema raises when the first file is such a file.  With ignore_errors true
\* neither bind nor scan raises, and a scan call goes on past such a file: it
\* ends only when the chunk is full or the file list is exhausted.
C13_OversizeFiles ==
    /\ \A i \in 1..Len(Emitted) : ~Oversize(bind_data.files, Emitted[i].file)
    /\ (op \in {"ReadXMLBind", "ReadXMLObjectsBind"} /\ args.ignore_errors) => ~raised
    /\ (/\ op = "ReadXMLBind"
        /\ ~args.ignore_errors
        /\ args.columns = <<>>
        /\ Oversize(args.files, 1)) => (raised /\ ~bind_data.bound)
    /\ (op \in ScanFunctions /\ ~bind_data.ignore_errors) =>
          \A f \in 1..gstate.file_index :
              Oversize(bind_data.files, f) =>
                  (raised /\ result = <<>> /\ f = gstate.file_index)
    /\ (op \in ScanFunctions /\ bind_data.ignore_errors) =>
          /\ ~raised
          /\ gstate.file_index = Len(bind_data.files) \/ Len(result) >= StandardVectorSize

\* C13 witness: with ignore_errors true the scan has passed an oversize first
\* file and emitted the rows of the file behind it
C13_Witness ==
    /\ op = "ReadXMLFunction"
    /\ bind_data.ignore_errors
    /\ Len(bind_data.files) = 2
    /\ Oversize(bind_data.files, 1)
    /\ gstate.file_index = 2
    /\ Len(Emitted) = 2
    /\ \A i \in 1..2 : Emitted[i].file = 2

\* C13 second witness: with ignore_errors false the scan has raised at an
\* oversize second file after the bind on a first file within the limit
C13_RaisedWitness ==
    /\ op = "ReadXMLFunction"
    /\ ~bind_data.ignore_errors
    /\ raised
    /\ gstate.file_index = 2
    /\ Oversize(bind_data.files, 2)
    /\ ~Oversize(bind_data.files, 1)

(***************************************************************************)
(* XMLUtils::IsValidXML called from several threads                        *)
(***************************************************************************)

\* the number of threads of the host that evaluate IsValidXML at the same time
Threads == 2

\* the strings handed to IsValidXML, each given by what the parser makes of it
ParseInputs == {Parsed(E2E1), InvalidDocument}

\* a thread outside IsValidXML
Idle == [pc |-> "idle", returned |-> FALSE]

\* a thread inside IsValidXML(xml_str), at that statement of the constructor of
\* XMLDocRAII or of IsValidXML
Inside(pc, xml_str, doc_set, xpath_ctx_set) ==
    [pc |-> pc, returned |-> FALSE, xml_str |-> xml_str, doc |-> doc_set,
     xpath_ctx |-> xpath_ctx_set]

\* a thread that has returned from IsValidXML(xml_str)
Returned(xml_str, xpath_ctx_set, valid) ==
    [pc |-> "idle", returned |-> TRUE, xml_str |-> xml_str, xpath_ctx |-> xpath_ctx_set,
     valid |-> valid]

InitParse ==
    /\ doc = InvalidDocument
    /\ opts = DefaultOptions
    /\ hashOrder = <<>>
    /\ op = "none"
    /\ args = <<>>
    /\ result = <<>>
    /\ NoScan
    /\ xml_parse_error_occurred = FALSE
    /\ thread = [t \in 1..Threads |-> Idle]

\* IsValidXML is entered: XMLDocRAII xml_doc(xml_str)
IsValidXML_Enter(t) ==
    /\ thread[t].pc = "idle"
    /\ \E xml_str \in ParseInputs :
          thread' = [thread EXCEPT ![t] = Inside("reset", xml_str, FALSE, FALSE)]
    /\ UNCHANGED xml_parse_error_occurred
    /\ UNCHANGED <<doc, opts, hashOrder, op, args, result>>
    /\ UNCHANGED scanVars

\* xml_parse_error_occurred = false
XMLDocRAII_Reset(t) ==
    /\ thread[t].pc = "reset"
    /\ xml_parse_error_occurred' = FALSE
    /\ thread' = [thread EXCEPT ![t].pc = "parse"]
    /\ UNCHANGED <<doc, opts, hashOrder, op, args, result>>
    /\ UNCHANGED scanVars

\* doc = xmlCtxtReadMemory(...): a string that is not well-formed gives no
\* document and has XMLErrorHandler called, which sets the flag
XMLDocRAII_Parse(t) ==
    /\ thread[t].pc = "parse"
    /\ xml_parse_error_occurred' = (xml_parse_error_occurred \/ ~thread[t].xml_str.valid)
    /\ thread' = [thread EXCEPT ![t] =
                      Inside("context", thread[t].xml_str, thread[t].xml_str.valid, FALSE)]
    /\ UNCHANGED <<doc, opts, hashOrder, op, args, result>>
    /\ UNCHANGED scanVars

\* if (doc && !xml_parse_error_occurred) xpath_ctx = xmlXPathNewContext(doc)
XMLDocRAII_Context(t) ==
    /\ thread[t].pc = "context"
    /\ thread' = [thread EXCEPT ![t] =
                      Inside("return", thread[t].xml_str, thread[t].doc,
                             thread[t].doc /\ ~xml_parse_error_occurred)]
    /\ UNCHANGED xml_parse_error_occurred
    /\ UNCHANGED <<doc, opts, hashOrder, op, args, result>>
    /\ UNCHANGED scanVars

\* return xml_doc.IsValid() && !xml_parse_error_occurred
IsValidXML_Return(t) ==
    /\ thread[t].pc = "return"
    /\ thread' = [thread EXCEPT ![t] =
                      Returned(thread[t].xml_str, thread[t].xpath_ctx,
                               thread[t].doc /\ ~xml_parse_error_occurred)]
    /\ UNCHANGED xml_parse_error_occurred
    /\ UNCHANGED <<doc, opts, hashOrder, op, args, result>>
    /\ UNCHANGED scanVars

NextParse ==
    \E t \in 1..Threads :
        \/ IsValidXML_Enter(t)
        \/ XMLDocRAII_Reset(t)
        \/ XMLDocRAII_Parse(t)
        \/ XMLDocRAII_Context(t)
        \/ IsValidXML_Return(t)

SpecParse == InitParse /\ [][NextParse]_vars

\* C14: what IsValidXML returns for a string, and whether XMLDocRAII gives the
\* document an XPath context, depends on that string alone: a well-formed
\* string is reported valid whatever the other threads parse meanwhile
C14_ValidityIsPerDocument ==
    \A t \in 1..Threads :
        thread[t].returned =>
            /\ thread[t].valid = thread[t].xml_str.valid
            /\ thread[t].xpath_ctx = thread[t].xml_str.valid

(***************************************************************************)
(* The three operations under every kind of max_depth                      *)
(***************************************************************************)

DepthOptions == {[DefaultOptions EXCEPT !.max_depth = d] : d \in LocateDepths}

InitDepth ==
    /\ doc \in LocateDocuments
    /\ opts \in DepthOptions
    /\ hashOrder \in Orderings(ColumnKeys(doc, opts))
    /\ op = "none"
    /\ args = <<>>
    /\ result = <<>>
    /\ NoScan
    /\ NoThreads

NextDepth == CallInferSchema \/ CallIdentifyRecordElements \/ CallExtractData

SpecDepth == InitDepth /\ [][NextDepth]_vars

\* the options with max_depth 20
AtDepthCap == [opts EXCEPT !.max_depth = DepthCap]

\* C15: a max_depth below 0 or above 20 has InferSchema, the Record Locator and
\* ExtractData each give what they give for max_depth 20; a max_depth of 0 is
\* taken as given (the root is the one record); and ExtractData uses the depth
\* InferSchema and the Record Locator use: one row per located record, one cell
\* per inferred column.
C15_SameEffectiveDepth ==
    /\ (opts.max_depth < 0 \/ opts.max_depth > DepthCap) =>
          /\ op = "InferSchema" => result = InferSchema(doc, AtDepthCap, hashOrder)
          /\ op = "IdentifyRecordElements" =>
                result = IdentifyRecordElements(doc.root, AtDepthCap)
          /\ op = "ExtractData" => result = ExtractData(doc, AtDepthCap, hashOrder)
    /\ (op = "IdentifyRecordElements" /\ opts.max_depth = 0) => result = <<(<<>>)>>
    /\ (op = "ExtractData" /\ InferSchema(doc, opts, hashOrder) # <<>>) =>
          /\ Len(result) = Len(IdentifyRecordElements(doc.root, opts))
          /\ \A r \in 1..Len(result) :
                Len(result[r]) = Len(InferSchema(doc, opts, hashOrder))

\* C15 witness: with max_depth -1 the two leaf columns of the two-person
\* document are inferred, as they are with max_depth 20
C15_Witness ==
    /\ op = "InferSchema"
    /\ opts.max_depth = -1
    /\ doc = Parsed(E2E1)
    /\ Len(result) = 2
    /\ result[1].type = VARCHAR

\* the direct children of a record that bear the name of a column
MatchingChildren(record, name) == SelectSeq(record.children, LAMBDA c : c.name = name)

\* the cell is the list of the children of the record that bear that name, one
\* element each in document order
IsListOfChildren(cell, record, name, type) ==
    /\ cell.k = "LIST"
    /\ Len(cell.items) = Len(MatchingChildren(record, name))
    /\ \A i \in 1..Len(cell.items) :
          cell.items[i] = ExtractValueFromNode(MatchingChildren(record, name)[i], type.child)

\* C16: in a row of ExtractData and of ExtractDataWithSchema, the cell of a
\* List(T) column that the record has children for holds one element per direct
\* child of the record bearing the column's name, in document order.
C16_ListHoldsMatchingChildren ==
    /\ (op = "ExtractData" /\ RemainingDepth >= 0) =>
          \A r \in 1..Len(result) : \A c \in 1..Len(result[r]) :
              (/\ InferSchema(doc, opts, hashOrder)[c].type.id = "LIST"
               /\ ~InferSchema(doc, opts, hashOrder)[c].is_attribute
               /\ MatchingChildren(NodeAt(doc.root, IdentifyRecordElements(doc.root, opts)[r]),
                                   InferSchema(doc, opts, hashOrder)[c].name) # <<>>) =>
                  IsListOfChildren(result[r][c],
                                   NodeAt(doc.root, IdentifyRecordElements(doc.root, opts)[r]),
                                   InferSchema(doc, opts, hashOrder)[c].name,
                                   InferSchema(doc, opts, hashOrder)[c].type)
    /\ op = "ExtractDataWithSchema" =>
          \A r \in 1..Len(result) : \A c \in 1..Len(result[r]) :
              (/\ args.types[c].id = "LIST"
               /\ ~HasProp(doc.root.children[r], args.names[c])
               /\ MatchingChildren(doc.root.children[r], args.names[c]) # <<>>) =>
                  IsListOfChildren(result[r][c], doc.root.children[r], args.names[c],
                                   args.types[c])

(***************************************************************************)
(* Attribute columns                                                       *)
(***************************************************************************)
N_emp_id == <<"e","m","p","_","i","d">>
P_attr == <<"a","t","t","r","_">>

\* <root><item emp_id="7" id="1"/><item emp_id="8" id="2"/></root>
Employees ==
    Element(N_root, <<>>, <<>>,
        <<Element(N_item, <<Attr(N_emp_id, <<"7">>), Attr(N_id, <<"1">>)>>, <<>>, <<>>),
          Element(N_item, <<Attr(N_emp_id, <<"8">>), Attr(N_id, <<"2">>)>>, <<>>, <<>>)>>)

\* <root><item emp_id="7"><name>Alice</name></item></root>
OneEmployee ==
    Element(N_root, <<>>, <<>>,
        <<Element(N_item, <<Attr(N_emp_id, <<"7">>)>>, <<>>, <<Leaf(N_name, T_Alice)>>)>>)

AttrDocuments == {Parsed(r) : r \in {E2E1, E2E2, E2E3, Wrapped, Employees, OneEmployee}}

AttrOptions ==
    {[DefaultOptions EXCEPT !.attr_mode = m, !.attr_prefix = p] :
        m \in {"columns", "prefixed"}, p \in {<<"@">>, P_attr}}

InitAttr ==
    /\ doc \in AttrDocuments
    /\ opts \in AttrOptions
    /\ hashOrder \in Orderings(ColumnKeys(doc, opts))
    /\ op = "none"
    /\ args = <<>>
    /\ result = <<>>
    /\ NoScan
    /\ NoThreads

NextAttr == CallInferSchema \/ CallExtractData \/ CallIdentifyRecordElements

SpecAttr == InitAttr /\ [][NextAttr]_vars

\* the attribute an attribute column was made for: the column name, without the
\* prefix in prefixed mode
AttributeOfColumn(column_name) ==
    IF opts.attr_mode = "prefixed" THEN SubstrFrom(column_name, Len(opts.attr_prefix))
    ELSE column_name

\* C17: in a row of ExtractData the cell of an attribute column is the value of
\* that attribute of the record, converted to the column's type, whenever the
\* record bears the attribute: for every attribute name and every prefix.
C17_AttributeCellIsValue ==
    (op = "ExtractData" /\ RemainingDepth >= 0) =>
        \A r \in 1..Len(result) : \A c \in 1..Len(result[r]) :
            (/\ InferSchema(doc, opts, hashOrder)[c].is_attribute
             /\ HasProp(NodeAt(doc.root, IdentifyRecordElements(doc.root, opts)[r]),
                        AttributeOfColumn(InferSchema(doc, opts, hashOrder)[c].name))) =>
                result[r][c] =
                    ConvertToValue(
                        GetProp(NodeAt(doc.root, IdentifyRecordElements(doc.root, opts)[r]),
                                AttributeOfColumn(InferSchema(doc, opts, hashOrder)[c].name)),
                        InferSchema(doc, opts, hashOrder)[c].type)

\* the rows handed to the host that came from that file, in the order emitted
EmittedOf(file) == SelectSeq(Emitted, LAMBDA row : row.file = file)

\* every row extracted from the file can be written to the output columns
WritesCleanly(file) ==
    \A r \in 1..Len(ExtractedRows(file)) :
        ~WriteRow(bind_data.types, ExtractedRows(file)[r], ExtractedColumns(file), file).thrown

\* C18: when the scan of read_xml has ended without an error, the rows handed
\* to the host for a file that was read without error are the rows extracted
\* from it, each once and in the order extracted, however many a chunk holds.
C18_NoRowDropped ==
    (op = "ReadXMLFunction" /\ ~raised /\ result = <<>>) =>
        \A f \in 1..Len(bind_data.files) :
            (Readable(f) /\ WritesCleanly(f)) =>
                EmittedOf(f) =
                    [r \in 1..Len(ExtractedRows(f)) |->
                        WriteRow(bind_data.types, ExtractedRows(f)[r],
                                 ExtractedColumns(f), f).row]

\* C19: in a scan of read_xml without a columns parameter, every cell of every
\* row handed to the host is written, and the value in output column i was
\* extracted for the column of that name in the bound schema, whichever file
\* the row comes from.
C19_CellsFollowBoundSchema ==
    (bind_data.bound /\ bind_data.function = "read_xml" /\ ~bind_data.has_explicit_schema) =>
        \A i \in 1..Len(Emitted) : \A c \in 1..Len(bind_data.names) :
            /\ Emitted[i].cells[c].value # Unwritten
            /\ Emitted[i].cells[c].column = bind_data.names[c]

\* the records located in the document, as nodes
LocatedRecords ==
    [r \in 1..Len(IdentifyRecordElements(doc.root, opts)) |->
        NodeAt(doc.root, IdentifyRecordElements(doc.root, opts)[r])]

\* some located record has a child of that name with child elements or attributes
ComplexInSomeRecord(name) ==
    \E r \in 1..Len(LocatedRecords) : \E i \in 1..Len(LocatedRecords[r].children) :
        /\ LocatedRecords[r].children[i].name = name
        /\ IsComplex(LocatedRecords[r].children[i], opts)

\* C20: with no remaining depth (max_depth 2), an element column that is complex
\* is typed List(XML) when it repeats within a record or is force-listed, and
\* XML otherwise.
C20_DepthLimitedComplexColumn ==
    (op = "InferSchema" /\ doc.valid /\ RemainingDepth = 0) =>
        \A c \in 1..Len(result) :
            (~result[c].is_attribute /\ ComplexInSomeRecord(result[c].name)) =>
                result[c].type =
                    IF \/ RepeatsInSomeRecord(result[c].name)
                       \/ result[c].name \in ParseForceListElements(opts.force_list)
                    THEN LIST(XMLType) ELSE XMLType

\* the first located record that has a direct child of that name
FirstRecordWith(name) ==
    CHOOSE r \in 1..Len(Located) :
        /\ FirstChildNamed(NodeAt(doc.root, Located[r]), name) # 0
        /\ \A q \in 1..(r - 1) : FirstChildNamed(NodeAt(doc.root, Located[q]), name) = 0

\* the first instance of an element column: the first child of that name of the
\* first located record that has one
FirstInstancePath(name) ==
    Append(Located[FirstRecordWith(name)],
           FirstChildNamed(NodeAt(doc.root, Located[FirstRecordWith(name)]), name))

\* the fields the first-instance inspection of the repeating case gives:
\* the attributes, then the distinct child tags
InspectedFields(name) ==
    AttributeFields(NodeAt(doc.root, FirstInstancePath(name)), opts)
        \o ChildFields(doc.root, FirstInstancePath(name), RemainingDepth, opts)

\* an element column, no record attribute of its name, complex in some record
ComplexElementColumn(column) ==
    /\ ~column.is_attribute
    /\ NoAttributeNamed(column.name)
    /\ ComplexInSomeRecord(column.name)

\* C21: with remaining depth above 0, a complex column that neither repeats
\* within a record nor is force-listed is typed Struct of the first instance's
\* attributes followed by its distinct child tags, and XML only when the first
\* instance has neither.
C21_SingleComplexIsStructOfFirst ==
    (op = "InferSchema" /\ ColumnsAnalysed /\ RemainingDepth > 0) =>
        \A c \in 1..Len(result) :
            (/\ ComplexElementColumn(result[c])
             /\ ~RepeatsInSomeRecord(result[c].name)
             /\ result[c].name \notin ParseForceListElements(opts.force_list)) =>
                result[c].type =
                    IF InspectedFields(result[c].name) # <<>>
                    THEN STRUCT(InspectedFields(result[c].name))
                    ELSE XMLType

\* C22: in a row of ExtractData, the cell of an element column typed XML is,
\* for every record that has a child of the column's name, the serialization of
\* the first such child as a whole, whatever that child contains.
C22_OpaqueCellIsWholeElement ==
    (op = "ExtractData" /\ RemainingDepth >= 0) =>
        \A r \in 1..Len(result) : \A c \in 1..Len(result[r]) :
            (/\ IsXMLType(InferSchema(doc, opts, hashOrder)[c].type)
             /\ ~InferSchema(doc, opts, hashOrder)[c].is_attribute
             /\ FirstChildNamed(NodeAt(doc.root, Located[r]),
                                InferSchema(doc, opts, hashOrder)[c].name) # 0) =>
                result[r][c] =
                    ConvertToValue(
                        NodeDump(NodeAt(doc.root, Located[r]).children[
                            FirstChildNamed(NodeAt(doc.root, Located[r]),
                                            InferSchema(doc, opts, hashOrder)[c].name)]),
                        XMLType)

\* the fields of a Struct type or of a List of Struct type, none for any other
FieldsOfType(type) ==
    IF type.id = "STRUCT" THEN type.fields
    ELSE IF type.id = "LIST" /\ type.child.id = "STRUCT" THEN type.child.fields
    ELSE <<>>

\* some instance of the column other than the first has a child tag that the
\* first instance lacks
LaterInstanceHasMore(name) ==
    \E r \in 1..Len(Located) : \E i \in 1..Len(NodeAt(doc.root, Located[r]).children) :
        /\ NodeAt(doc.root, Located[r]).children[i].name = name
        /\ Append(Located[r], i) # FirstInstancePath(name)
        /\ \E k \in 1..Len(NodeAt(doc.root, Located[r]).children[i].children) :
              FirstChildNamed(NodeAt(doc.root, FirstInstancePath(name)),
                              NodeAt(doc.root, Located[r]).children[i].children[k].name) = 0

TallySamples == {<<text>> : text \in ConvertTexts \ {<<>>}}

TallyOptions ==
    {[DefaultOptions EXCEPT !.boolean_detection = b, !.numeric_detection = n,
                            !.temporal_detection = t] :
        b \in BOOLEAN, n \in BOOLEAN, t \in BOOLEAN}

InitTally ==
    /\ doc = InvalidDocument
    /\ opts \in TallyOptions
    /\ hashOrder = <<>>
    /\ op = "none"
    /\ args \in TallySamples
    /\ result = <<>>
    /\ NoScan
    /\ NoThreads

NextTally == CallInferTypeFromSamples

SpecTally == InitTally /\ [][NextTally]_vars

\* the kinds in the order of the tests
KindOrder == <<"BOOLEAN", "INTEGER", "DOUBLE", "DATE", "TIMESTAMP", "TIME", "VARCHAR">>

\* the sample passes the test of that kind and the class of the kind is enabled
KindApplies(kind, sample) ==
    CASE kind = "BOOLEAN" -> opts.boolean_detection /\ IsBoolean(sample)
      [] kind = "INTEGER" -> opts.numeric_detection /\ IsInteger(sample)
      [] kind = "DOUBLE" -> opts.numeric_detection /\ IsDouble(sample)
      [] kind = "DATE" -> opts.temporal_detection /\ IsDate(sample)
      [] kind = "TIMESTAMP" -> opts.temporal_detection /\ IsTimestamp(sample)
      [] kind = "TIME" -> opts.temporal_detection /\ IsTime(sample)
      [] OTHER -> TRUE

\* C24: the detector run on one non-empty sample gives the first kind of the
\* order Boolean, Integer, Double, Date, Timestamp, Time, String whose test the
\* sample passes and whose class is enabled: "1" and "0" give Boolean when
\* boolean detection is on, and a timestamp never gives Time.
C24_FirstEnabledKindWins ==
    (op = "InferTypeFromSamples" /\ Len(args) = 1) =>
        /\ \E i \in 1..Len(KindOrder) :
              /\ result = Scalar(KindOrder[i])
              /\ KindApplies(KindOrder[i], args[1])
              /\ \A j \in 1..(i - 1) : ~KindApplies(KindOrder[j], args[1])
        /\ (args[1] \in {<<"1">>, <<"0">>} /\ opts.boolean_detection) => result = BOOLEAN_T
        /\ IsTimestamp(args[1]) => result # TIME

\* C24 witness: the sample "1" has been tallied as Boolean with numeric
\* detection on as well
C24_Witness ==
    /\ op = "InferTypeFromSamples"
    /\ args = <<(<<"1">>)>>
    /\ opts.boolean_detection
    /\ opts.numeric_detection
    /\ result = BOOLEAN_T

\* C24 second witness: a timestamp has been tallied as Timestamp
C24_TimestampWitness ==
    /\ op = "InferTypeFromSamples"
    /\ Len(args) = 1
    /\ IsTimestamp(args[1])
    /\ result = TIMESTAMP

(***************************************************************************)
(* InferSchema on elements nested deeper than the depth budget             *)
(***************************************************************************)

\* the deepest nesting of the generated columns
MaxNest == 4

\* <name><name>...Alice...</name></name>, n elements around the text-only one
RECURSIVE Nest(_)
Nest(n) ==
    IF n = 0 THEN Leaf(N_name, T_Alice)
    ELSE Element(N_name, <<>>, <<>>, <<Nest(n - 1)>>)

\* the columns of the one record: a nested element alone, beside a leaf, or twice
NestedRecords ==
    UNION {{Element(N_item, <<>>, <<>>, <<Nest(n)>>),
            Element(N_item, <<>>, <<>>, <<Nest(n), Leaf(N_age, T_30)>>),
            Element(N_item, <<>>, <<>>, <<Nest(n), Nest(n)>>),
            Element(N_item, <<>>, <<>>,
                <<Element(N_name, <<>>, <<>>, <<Leaf(N_age, T_30), Nest(n)>>)>>)} :
               n \in 0..MaxNest}

\* <name first="x"><first>Al</first></name>
SameNameTwice ==
    Element(N_name, <<Attr(N_first, <<"x">>)>>, <<>>, <<Leaf(N_first, <<"A","l">>)>>)

NestDocuments ==
    {Parsed(Element(N_root, <<>>, <<>>, <<record>>)) :
        record \in NestedRecords \cup {Element(N_item, <<>>, <<>>, <<SameNameTwice>>),
                                       Element(N_item, <<>>, <<>>,
                                               <<SameNameTwice, SameNameTwice>>)}}

NestOptions == {[DefaultOptions EXCEPT !.max_depth = d] : d \in 0..(MaxNest + 3)}

InitNest ==
    /\ doc \in NestDocuments
    /\ opts \in NestOptions
    /\ hashOrder \in Orderings(ColumnKeys(doc, opts))
    /\ op = "none"
    /\ args = <<>>
    /\ result = <<>>
    /\ NoScan
    /\ NoThreads

NextNest == CallInferSchema \/ CallExtractData

SpecNest == InitNest /\ [][NextNest]_vars

\* the larger of two numbers
Larger(a, b) == IF a >= b THEN a ELSE b

\* the number of Struct levels nested in a type
RECURSIVE StructLevels(_)
RECURSIVE MostStructLevels(_)
MostStructLevels(fields) ==
    IF fields = <<>> THEN 0
    ELSE Larger(StructLevels(Head(fields).type), MostStructLevels(Tail(fields)))

StructLevels(type) ==
    IF type.id = "STRUCT" THEN 1 + MostStructLevels(type.fields)
    ELSE IF type.id = "LIST" THEN StructLevels(type.child)
    ELSE 0

\* the type has no Struct in it: a scalar, XML, or a List of those
NoStruct(type) == StructLevels(type) = 0

\* C25: a type InferSchema resolves for a column from remaining depth d >= 0
\* nests at most d Struct levels, and with d = 0 a complex column is XML or
\* List(XML): every nested call runs on one less than its caller's depth and
\* none is made once the depth is used up.
C25_DepthBoundsNesting ==
    (op = "InferSchema" /\ ColumnsAnalysed) =>
        \A c \in 1..Len(result) :
            /\ StructLevels(result[c].type) <= RemainingDepth
            /\ (RemainingDepth = 0 /\ ComplexElementColumn(result[c])) =>
                  result[c].type \in {XMLType, LIST(XMLType)}

\* C25 witness: a column nested deeper than the remaining depth has been typed
\* with as many Struct levels as the depth allows, and two at least
C25_Witness ==
    /\ op = "InferSchema"
    /\ ColumnsAnalysed
    /\ doc = Parsed(Element(N_root, <<>>, <<>>, <<Element(N_item, <<>>, <<>>, <<Nest(MaxNest)>>)>>))
    /\ RemainingDepth = 2
    /\ StructLevels(result[1].type) = 2

(***************************************************************************)
(* IdentifyColumns, one record of the loop at a time: result is the column *)
(* map in insertion order, args the number of records processed            *)
(***************************************************************************)

\* the most records of a generated document and the most children of a record
MaxRecords == 2
MaxKids == 2

\* records that bear an attribute "name" or none, with children name and age
ClashRecords ==
    {Element(N_item, properties, <<>>, kids) :
        properties \in {<<>>, <<Attr(N_name, <<"n">>)>>},
        kids \in UNION {[1..k -> {Leaf(N_name, T_Alice), Leaf(N_age, T_30)}] : k \in 0..MaxKids}}

ClashDocuments ==
    {Parsed(Element(N_root, <<>>, <<>>, records)) :
        records \in UNION {[1..n -> ClashRecords] : n \in 1..MaxRecords}}

ClashOptions == {[DefaultOptions EXCEPT !.attr_mode = m] : m \in {"columns", "discard"}}

InitColumns ==
    /\ doc \in ClashDocuments
    /\ opts \in ClashOptions
    /\ hashOrder = <<>>
    /\ op = "none"
    /\ args = 0
    /\ result = <<>>
    /\ NoScan
    /\ NoThreads

\* one iteration of the loop over record_elements
IdentifyColumns_Record ==
    /\ args < Len(IdentifyRecordElements(doc.root, opts))
    /\ op' = "IdentifyColumns"
    /\ args' = args + 1
    /\ result' = MarkRepeats(TouchAll(result,
                                      RecordTouches(doc.root,
                                          IdentifyRecordElements(doc.root, opts)[args + 1],
                                          opts)),
                             RecordTouches(doc.root,
                                 IdentifyRecordElements(doc.root, opts)[args + 1], opts))
    /\ UNCHANGED <<doc, opts, hashOrder>>
    /\ UNCHANGED scanVars
    /\ UNCHANGED parseVars

NextColumns == IdentifyColumns_Record

SpecColumns == InitColumns /\ [][NextColumns]_vars

\* how often a record touches a column name: its attributes of that name, when
\* attributes are kept, and its direct children of that name
TouchCount(record, name) ==
    Cardinality({i \in 1..Len(record.properties) :
                    opts.attr_mode # "discard" /\ record.properties[i].name = name})
        + Len(MatchingChildren(record, name))

\* C26: after any number of records, repeats_in_record of a column is true
\* exactly when one of the records processed so far touched the column's name
\* more than once; holding after every record, a later record never clears it.
C26_RepeatsIsSticky ==
    op = "IdentifyColumns" =>
        \A c \in 1..Len(result) :
            result[c].repeats_in_record <=>
                \E r \in 1..args : TouchCount(NodeAt(doc.root, Located[r]), result[c].name) > 1

\* C26 witness: the first record touched a column twice, the second once, and
\* the flag is still set after the second
C26_Witness ==
    /\ op = "IdentifyColumns"
    /\ args = 2
    /\ \E c \in 1..Len(result) :
          /\ result[c].repeats_in_record
          /\ TouchCount(NodeAt(doc.root, Located[1]), result[c].name) > 1
          /\ TouchCount(NodeAt(doc.root, Located[2]), result[c].name) = 1

\* C27: after any number of records, the instances of an attribute column are
\* records that bear the attribute, and the instances of an element column are
\* direct children of records that bear the tag, never a record itself.
C27_ColumnOriginsUnmixed ==
    op = "IdentifyColumns" =>
        \A c \in 1..Len(result) : \A i \in 1..Len(result[c].instances) :
            IF result[c].is_attribute
            THEN /\ \E r \in 1..args : result[c].instances[i] = Located[r]
                 /\ HasProp(NodeAt(doc.root, result[c].instances[i]), result[c].name)
            ELSE /\ \A r \in 1..args : result[c].instances[i] # Located[r]
                 /\ NodeAt(doc.root, result[c].instances[i]).name = result[c].name

\* no two fields of a Struct bear the same name, at any level of the type
RECURSIVE DistinctFieldNames(_)
DistinctFieldNames(type) ==
    IF type.id = "STRUCT"
    THEN /\ \A i \in 1..Len(type.fields) : \A j \in 1..Len(type.fields) :
                type.fields[i].name = type.fields[j].name => i = j
         /\ \A i \in 1..Len(type.fields) : DistinctFieldNames(type.fields[i].type)
    ELSE IF type.id = "LIST" THEN DistinctFieldNames(type.child)
    ELSE TRUE

\* C28: every Struct in a type that InferSchema resolves for a column has
\* pairwise distinct field names.
C28_StructFieldsDistinct ==
    (op = "InferSchema" /\ ColumnsAnalysed) =>
        \A c \in 1..Len(result) : DistinctFieldNames(result[c].type)

\* C29: a non-empty text that IsInteger, the detector's test for Integer,
\* accepts is converted by ConvertToValue to the target type Integer as an
\* Integer value, never as the raw text in a String value.
C29_DetectedIntegerConverts ==
    (/\ op = "ConvertToValue"
     /\ args.type = INTEGER
     /\ args.text # <<>>
     /\ IsInteger(args.text)) =>
        /\ result.k = "INTEGER"
        /\ result # StringValue(args.text)

\* a scan call has returned an empty chunk
EmptyChunk == op \in ScanFunctions /\ ~raised /\ result = <<>>

\* what holds of a bound scan in every state: file_index is within the file
\* list, the rows emitted so far come from the files in list order, and an
\* empty chunk means every file is consumed
ScanInOrder ==
    bind_data.bound =>
        /\ gstate.file_index <= Len(bind_data.files)
        /\ \A i \in 1..Len(Emitted) : \A j \in i..Len(Emitted) :
              Emitted[i].file <= Emitted[j].file
        /\ \A i \in 1..Len(Emitted) : Emitted[i].file <= gstate.file_index
        /\ EmptyChunk => gstate.file_index = Len(bind_data.files)

\* C30 as stated: in every state of a scan file_index is at most the number of
\* files, the rows come from the files in list order, an empty chunk is
\* returned only when every file is consumed, no step lowers file_index, and a
\* bound scan that the host keeps calling comes to an empty chunk.
C30_ScanEndsWithEmptyChunk ==
    /\ []ScanInOrder
    /\ [][gstate'.file_index >= gstate.file_index]_vars
    /\ (bind_data.bound ~> EmptyChunk)

\* C30: in every state of a scan of read_xml or read_xml_objects file_index is
\* at most the number of files, the rows come from the files in list order and
\* an empty chunk is returned only when every file is consumed; no step lowers
\* file_index; and a bound scan that the host keeps calling comes to an empty
\* chunk, unless a call raises.
C30_ScanAdvancesAndEnds ==
    /\ []ScanInOrder
    /\ [][gstate'.file_index >= gstate.file_index]_vars
    /\ (bind_data.bound ~> (raised \/ EmptyChunk))

\* C30 witness: a scan of two files has returned an empty chunk after a chunk
\* with rows
C30_Witness ==
    /\ EmptyChunk
    /\ Len(bind_data.files) = MaxFiles
    /\ gstate.file_index = MaxFiles
    /\ output # <<>>

====
